---- MODULE Spec2Model ----
(***************************************************************************)
(* A model of the GitHub profile generator: the statistics client          *)
(* (src/src/github_api.py), the configuration merge (src/src/config.py),   *)
(* the template substitution (src/src/svg_generator.py) and the run        *)
(* orchestrator (src/profile.py).                                          *)
(*                                                                         *)
(* Python strings are sequences of one-character strings; Python None and  *)
(* JSON null are the value None; a dict is a function whose DOMAIN is its  *)
(* key set.                                                                *)
(***************************************************************************)
EXTENDS Integers, Sequences, FiniteSets, TLC

VARIABLES
    \* ---- GitHubAPI instance and the call in progress
    query_count,    \* self.query_count: operation name -> number of requests
    cpc,            \* control point of the client ("idle": no call in progress)
    call,           \* the call in progress or last made: [op, affil]
    fr,             \* locals of the running client method
    rf,             \* locals of _get_repository_commit_stats
    ret,            \* outcome of the last call: value returned or error raised
    \* ---- the remote API as seen by the call in progress
    remote,         \* repository listing served for one affiliation list
    \* ---- observations of the call in progress
    reqs,           \* graph requests issued, each with the response it got
    rest_calls,     \* number of REST requests issued
    warnings,       \* warnings printed by get_lines_of_code
    attempted,      \* repositories whose detail fetch was started, in order
    raisedFor,      \* repositories whose detail fetch raised
    sumReturned,    \* sums of the stats returned by the detail fetches
    detail_errors,  \* detail requests that got no success response, by repository
    \* ---- ConfigManager
    DEFAULT_CONFIG, \* the class attribute ConfigManager.DEFAULT_CONFIG
    config,         \* self.config of the global instance
    lastMerge,      \* the last merge_github_data call: state before, argument
    \* ---- SVGGenerator
    document,       \* the template text substitution starts from
    args,           \* the arguments of update_svg_files
    passes,         \* the outputs of successive substitution passes
    reordered,      \* the output of a pass with two replace calls exchanged
    \* ---- the process and ProfileGenerator
    env,            \* environment variables: is ACCESS_TOKEN, GITHUB_ACTIONS set
    files,          \* the template files: file name -> content, or Missing
    _github_api_instance,   \* the lazily created client, or None
    pc,             \* control point of the constructor and of run()
    run_data,       \* the dict data that _collect_data fills
    exit_status,    \* Running, or Exited(status)
    opened,         \* the files opened for writing, in order
    attempts,       \* the calls of _update_single_svg made: file and outcome
    query_stats,    \* what get_query_stats returned to its caller, if called
    console,        \* the messages of the orchestrator and of the generator
    completed,      \* the steps of _collect_data that have completed
    raisedAt        \* the step of _collect_data that raised, or None

clientVars == <<query_count, cpc, call, fr, rf, ret, remote, reqs, rest_calls,
                warnings, attempted, raisedFor, sumReturned, detail_errors>>

configVars == <<DEFAULT_CONFIG, config, lastMerge>>

svgVars == <<document, args, passes, reordered>>

runVars == <<env, files, _github_api_instance, pc, run_data, exit_status, opened,
             attempts, query_stats, console, completed, raisedAt>>

vars == <<clientVars, configVars, svgVars, runVars>>

(***************************************************************************)
(* Bounds of the model.                                                    *)
(***************************************************************************)
MaxPages == 2       \* pages in a repository listing
MaxCommits == 2     \* commits a repository's commit list returns
MaxChunks == 2      \* chunks a template document is built from

(***************************************************************************)
(* Values.                                                                 *)
(***************************************************************************)
None == <<"None">>
\* Python's True and False
True == <<"True">>
False == <<"False">>

Cursor(p) == <<"cursor", p>>

\* d[key] = value on a dict.
Put(d, key, value) ==
    [k \in DOMAIN d \cup {key} |-> IF k = key THEN value ELSE d[k]]

\* dict.get(key, default)
Get(d, key, default) == IF key \in DOMAIN d THEN d[key] ELSE default

Range(s) == { s[j] : j \in 1..Len(s) }

RECURSIVE SumSeq(_)
SumSeq(s) == IF s = <<>> THEN 0 ELSE Head(s) + SumSeq(Tail(s))

RECURSIVE Flatten(_)
Flatten(ss) == IF ss = <<>> THEN <<>> ELSE Head(ss) \o Flatten(Tail(ss))

\* the slice stops one element early
Slice_short(s, lo, hi) ==
    SubSeq(s, lo + 1, (IF hi < Len(s) THEN hi ELSE Len(s)) - 1)

\* Python s[lo:hi] for 0 <= lo <= hi
Slice(s, lo, hi) ==
    SubSeq(s, lo + 1, IF hi < Len(s) THEN hi ELSE Len(s))

(***************************************************************************)
(* The remote API.  A repository listing is a sequence of pages; the page  *)
(* after cursor None is the first one, and the endCursor of page p is the  *)
(* opaque token Cursor(p).  The last page reports hasNextPage = false.     *)
(***************************************************************************)
AffiliationLists ==
    { <<"OWNER">>, <<"OWNER", "COLLABORATOR", "ORGANIZATION_MEMBER">> }

\* repository nodes of page p, named by their place in the listing
NamedPage(p, raw) ==
    [j \in 1..Len(raw) |->
        [nameWithOwner |-> <<p, j>>,
         stargazers |-> raw[j].stars,
         isFork |-> raw[j].isFork,
         isArchived |-> raw[j].isArchived]]

NamedListing(raws) == [p \in 1..Len(raws) |-> NamedPage(p, raws[p])]

Plain(n) == [stars |-> n, isFork |-> FALSE, isArchived |-> FALSE]
Fork(n) == [stars |-> n, isFork |-> TRUE, isArchived |-> FALSE]
Archived(n) == [stars |-> n, isFork |-> FALSE, isArchived |-> TRUE]

Pages ==
    { <<>>, <<Plain(2)>>, <<Fork(1), Plain(0)>>, <<Plain(3), Archived(4)>> }

ListingsUpTo(n) ==
    { NamedListing(raws) : raws \in UNION { [1..m -> Pages] : m \in 1..n } }

Listings == ListingsUpTo(MaxPages)

PageIndex(cursor) == IF cursor = None THEN 1 ELSE cursor[2] + 1

\* data['user']['repositories'] of the response to a listing query
ServerPage(affil, cursor) ==
    LET p == PageIndex(cursor) IN
    IF affil = remote.affil /\ p \in 1..Len(remote.pages)
    THEN [edges |-> remote.pages[p],
          totalCount |-> Len(Flatten(remote.pages)),
          pageInfo |-> [endCursor |-> Cursor(p),
                        hasNextPage |-> p < Len(remote.pages)]]
    ELSE [edges |-> <<>>,
          totalCount |-> 0,
          pageInfo |-> [endCursor |-> None, hasNextPage |-> FALSE]]

\* a non-200 response: status code and response text
ErrorResponses ==
    { [status |-> 401, text |-> "Bad credentials"],
      [status |-> 502, text |-> "Bad gateway"] }

OK == [status |-> 200, text |-> "json"]

Responses == {OK} \cup ErrorResponses

\* data['user'] of a user query: optional fields may be absent or null
UserData ==
    { [id |-> "u1", createdAt |-> "2020",
       websiteUrl |-> <<"w">>, email |-> <<"e">>, twitterUsername |-> <<"t">>],
      [id |-> "u1", createdAt |-> "2020",
       location |-> <<"L">>, websiteUrl |-> <<>>, email |-> None,
       bio |-> None, isHireable |-> True],
      [id |-> "u2", createdAt |-> "2021", company |-> <<"c">>, isHireable |-> None] }

TotalCounts == {0, 7}

\* 'stats' of a commit detail; a commit detail may also carry no 'stats'
CommitStats ==
    { [additions |-> 5, deletions |-> 1],
      [deletions |-> 4] }

\* a REST response: the transport raises, or a status code comes back
RestResponses ==
    { [raises |-> FALSE, status |-> 200],
      [raises |-> FALSE, status |-> 404],
      [raises |-> TRUE, status |-> 0] }

\* a commit detail document, with or without 'stats'
CommitDetails == { [sha |-> "sha"] } \cup { [sha |-> "sha", stats |-> s] : s \in CommitStats }

\* The REST server answers a detail request in any way, or by a script that
\* fixes its answer to every request by the place of the repository on its
\* page, shifted by a seed.
AnyAnswer == [any |-> TRUE]
Scripted(seed) == [seed |-> seed]

IsScripted == "seed" \in DOMAIN remote.rest

Place(repo_name) == repo_name[2] + remote.rest.seed

\* GET /repos/{repo_name}/stats/participation
ParticipationAnswers(repo_name) ==
    IF ~IsScripted THEN RestResponses
    ELSE IF Place(repo_name) % 4 = 0 THEN { [raises |-> FALSE, status |-> 404] }
    ELSE IF Place(repo_name) % 7 = 0 THEN { [raises |-> TRUE, status |-> 0] }
    ELSE { [raises |-> FALSE, status |-> 200] }

\* GET /repos/{repo_name}/commits: the response and the number of commits
CommitsAnswers(repo_name) ==
    IF ~IsScripted THEN RestResponses
    ELSE IF Place(repo_name) % 5 = 0 THEN { [raises |-> FALSE, status |-> 404] }
    ELSE { [raises |-> FALSE, status |-> 200] }

CommitCounts(repo_name) ==
    IF ~IsScripted THEN 0..MaxCommits
    ELSE { 1 + (Place(repo_name) % MaxCommits) }

\* GET /repos/{repo_name}/commits/{sha} of commit c of the list
DetailAnswers(repo_name, c) ==
    IF ~IsScripted THEN RestResponses
    ELSE IF (Place(repo_name) + c) % 6 = 0 THEN { [raises |-> FALSE, status |-> 404] }
    ELSE IF (Place(repo_name) + c) % 7 = 0 THEN { [raises |-> TRUE, status |-> 0] }
    ELSE { [raises |-> FALSE, status |-> 200] }

DetailDocuments(repo_name, c) ==
    IF ~IsScripted THEN CommitDetails
    ELSE IF (Place(repo_name) + c) % 2 = 0
    THEN { [sha |-> "sha", stats |-> [additions |-> 5, deletions |-> 1]] }
    ELSE { [sha |-> "sha", stats |-> [deletions |-> 4]] }

(***************************************************************************)
(* GitHubAPI.                                                              *)
(***************************************************************************)
Operations ==
    { "user_getter", "follower_getter", "graph_repos_stars", "recursive_loc",
      "graph_commits", "loc_query" }

NoFrame == [none |-> TRUE]
NoReturn == [kind |-> "none"]
Returned(v) == [kind |-> "value", value |-> v]
Raised(e) == [kind |-> "raised", error |-> e]

\* the message leaves out the response text
RequestError_status_only(operation_name, resp) ==
    [type |-> "Exception", operation |-> operation_name,
     status |-> resp.status, text |-> ""]

\* the exception _make_request raises for a non-200 response
RequestError(operation_name, resp) ==
    [type |-> "Exception", operation |-> operation_name,
     status |-> resp.status, text |-> resp.text]

\* GitHubAPI.__init__ with ACCESS_TOKEN set
NewClient ==
    /\ query_count = [o \in Operations |-> 0]
    /\ cpc = "idle"
    /\ call = [op |-> "none"]
    /\ fr = NoFrame
    /\ rf = NoFrame
    /\ ret = NoReturn
    /\ remote = [affil |-> <<>>, pages |-> <<>>, rest |-> AnyAnswer]
    /\ reqs = <<>>
    /\ rest_calls = 0
    /\ warnings = <<>>
    /\ attempted = <<>>
    /\ raisedFor = {}
    /\ sumReturned = [additions |-> 0, deletions |-> 0, commits |-> 0]
    /\ detail_errors = {}

\* a caller enters client method op at control point at; the remote serves
\* listing for the affiliation list affil and answers detail requests as
\* rest says
EnterServed(op, at, affil, listing, rest, frame) ==
    /\ cpc = "idle"
    /\ cpc' = at
    /\ call' = [op |-> op, affil |-> affil]
    /\ fr' = frame
    /\ rf' = NoFrame
    /\ ret' = NoReturn
    /\ remote' = [affil |-> affil, pages |-> listing, rest |-> rest]
    /\ reqs' = <<>>
    /\ rest_calls' = 0
    /\ warnings' = <<>>
    /\ attempted' = <<>>
    /\ raisedFor' = {}
    /\ sumReturned' = [additions |-> 0, deletions |-> 0, commits |-> 0]
    /\ detail_errors' = {}
    /\ UNCHANGED query_count

\* the same, with a remote that may answer a detail request in any way
Enter(op, at, affil, listing, frame) ==
    EnterServed(op, at, affil, listing, AnyAnswer, frame)

\* mutant: the request is counted after the response, when it succeeded
_make_request_counted_on_success(operation_name, variables, resp, page) ==
    /\ query_count' = [query_count EXCEPT ![operation_name] =
                           IF resp.status = 200 THEN @ + 1 ELSE @]
    /\ reqs' = Append(reqs, [operation |-> operation_name,
                             variables |-> variables,
                             status |-> resp.status,
                             text |-> resp.text,
                             pageInfo |-> page.pageInfo])

\* the counters are set up anew for the request
_make_request_fresh(operation_name, variables, resp, page) ==
    /\ query_count' = [o \in DOMAIN query_count |->
                           IF o = operation_name THEN 1 ELSE 0]
    /\ reqs' = Append(reqs, [operation |-> operation_name,
                             variables |-> variables,
                             status |-> resp.status,
                             text |-> resp.text,
                             pageInfo |-> page.pageInfo])

\* _make_request: count the request, post it, log it with its response
_make_request(operation_name, variables, resp, page) ==
    /\ query_count' = [query_count EXCEPT ![operation_name] = @ + 1]
    /\ reqs' = Append(reqs, [operation |-> operation_name,
                             variables |-> variables,
                             status |-> resp.status,
                             text |-> resp.text,
                             pageInfo |-> page.pageInfo])

NoPage == [pageInfo |-> None]

\* the method returns v or raises e to its caller
Leave(outcome) ==
    /\ cpc' = "idle"
    /\ ret' = outcome
    /\ fr' = NoFrame
    /\ rf' = NoFrame

LocGhosts == <<rest_calls, warnings, attempted, raisedFor, sumReturned,
               detail_errors>>

\* get_user_info: the profile record built from data['user']
user_info(user_data) ==
    [id |-> user_data.id,
     created_at |-> user_data.createdAt,
     location |-> Get(user_data, "location", None),
     website |-> Get(user_data, "websiteUrl", None),
     email |-> Get(user_data, "email", None),
     twitter |-> Get(user_data, "twitterUsername", None),
     bio |-> Get(user_data, "bio", None),
     company |-> Get(user_data, "company", None),
     is_hireable |-> Get(user_data, "isHireable", False)]

\* get_user_info; remote.user keeps the data['user'] the remote answered
\* with
get_user_info ==
    /\ cpc = "get_user_info"
    /\ \E resp \in Responses, user_data \in UserData :
        /\ _make_request("user_getter", [login |-> "lelborn"], resp, NoPage)
        /\ IF resp.status = 200
           THEN /\ Leave(Returned(<<[id |-> user_data.id], user_info(user_data)>>))
                /\ remote' = Put(remote, "user", user_data)
           ELSE /\ Leave(Raised(RequestError("user_getter", resp)))
                /\ UNCHANGED remote
    /\ UNCHANGED <<call, LocGhosts>>

get_follower_count ==
    /\ cpc = "get_follower_count"
    /\ \E resp \in Responses, totalCount \in TotalCounts :
        /\ _make_request("follower_getter", [login |-> "lelborn"], resp, NoPage)
        /\ IF resp.status = 200
           THEN Leave(Returned(totalCount))
           ELSE Leave(Raised(RequestError("follower_getter", resp)))
    /\ UNCHANGED <<call, remote, LocGhosts>>

get_commit_stats ==
    /\ cpc = "get_commit_stats"
    /\ \E resp \in Responses, totalContributions \in TotalCounts :
        /\ _make_request("graph_commits",
                         [start_date |-> fr.start_date, end_date |-> fr.end_date,
                          login |-> "lelborn"],
                         resp, NoPage)
        /\ IF resp.status = 200
           THEN Leave(Returned(totalContributions))
           ELSE Leave(Raised(RequestError("graph_commits", resp)))
    /\ UNCHANGED <<call, remote, LocGhosts>>

\* the variables of a repository listing query
ListingVariables(owner_affiliation, cursor) ==
    [owner_affiliation |-> owner_affiliation, login |-> "lelborn", cursor |-> cursor]

\* mutant: the count follows the pages of the listing as the star count does
get_repository_stats_paged ==
    /\ cpc = "get_repository_stats"
    /\ fr.count_type = "repos"
    /\ \E resp \in Responses :
        LET variables == ListingVariables(fr.owner_affiliation, fr.cursor)
            data == ServerPage(variables.owner_affiliation, variables.cursor)
        IN  /\ _make_request("graph_repos_stars", variables, resp,
                             IF resp.status = 200 THEN data ELSE NoPage)
            /\ IF resp.status # 200
               THEN Leave(Raised(RequestError("graph_repos_stars", resp)))
               ELSE IF data.pageInfo.hasNextPage
               THEN /\ fr' = [fr EXCEPT !.cursor = data.pageInfo.endCursor]
                    /\ UNCHANGED <<cpc, ret, rf>>
               ELSE Leave(Returned(data.totalCount))
    /\ UNCHANGED <<call, remote, LocGhosts>>

\* get_repository_stats, count_type == 'repos': one request, totalCount
get_repository_stats ==
    /\ cpc = "get_repository_stats"
    /\ fr.count_type = "repos"
    /\ \E resp \in Responses :
        LET variables == ListingVariables(fr.owner_affiliation, fr.cursor)
            data == ServerPage(variables.owner_affiliation, variables.cursor)
        IN  /\ _make_request("graph_repos_stars", variables, resp,
                             IF resp.status = 200 THEN data ELSE NoPage)
            /\ IF resp.status = 200
               THEN Leave(Returned(data.totalCount))
               ELSE Leave(Raised(RequestError("graph_repos_stars", resp)))
    /\ UNCHANGED <<call, remote, LocGhosts>>

\* counts the edges of the page instead of their stars
_count_stars_edges(edges) == Len(edges)

\* _count_stars: total stars of the repository edges of one page
RECURSIVE _count_stars(_)
_count_stars(edges) ==
    IF edges = <<>> THEN 0
    ELSE Head(edges).stargazers + _count_stars(Tail(edges))

\* stops at the first page without edges instead
LastPage_empty(data) == data.edges = <<>>

\* the loop exit test of both pagination loops
LastPage(data) == ~data.pageInfo.hasNextPage

\* the cursor is not advanced
NextCursor_stale(cursor, data) == cursor

\* the cursor of the next request of both pagination loops
NextCursor(cursor, data) == data.pageInfo.endCursor

\* one iteration of the loop of _get_total_stars
_get_total_stars ==
    /\ cpc = "get_repository_stats"
    /\ fr.count_type = "stars"
    /\ \E resp \in Responses :
        LET variables == ListingVariables(fr.owner_affiliation, fr.cursor)
            data == ServerPage(variables.owner_affiliation, variables.cursor)
            total_stars == fr.total_stars + _count_stars(data.edges)
        IN  /\ _make_request("graph_repos_stars", variables, resp,
                             IF resp.status = 200 THEN data ELSE NoPage)
            /\ IF resp.status # 200
               THEN Leave(Raised(RequestError("graph_repos_stars", resp)))
               ELSE IF LastPage(data)
               THEN Leave(Returned(total_stars))
               ELSE /\ fr' = [fr EXCEPT !.total_stars = total_stars,
                                        !.cursor = NextCursor(fr.cursor, data)]
                    /\ UNCHANGED <<cpc, ret, rf>>
    /\ UNCHANGED <<call, remote, LocGhosts>>

\* only archived repositories are filtered out
filtered_edges_forks_kept(edges) ==
    SelectSeq(edges, LAMBDA edge : ~edge.isArchived)

\* the filter of _get_all_repository_edges
RECURSIVE filtered_edges(_)
filtered_edges(edges) ==
    IF edges = <<>> THEN <<>>
    ELSE IF ~Head(edges).isFork /\ ~Head(edges).isArchived
    THEN <<Head(edges)>> \o filtered_edges(Tail(edges))
    ELSE filtered_edges(Tail(edges))

\* one iteration of the loop of _get_all_repository_edges; on return
\* get_lines_of_code goes on with the edges and zeroed totals
_get_all_repository_edges ==
    /\ cpc = "_get_all_repository_edges"
    /\ \E resp \in Responses :
        LET variables == ListingVariables(fr.owner_affiliation, fr.cursor)
            data == ServerPage(variables.owner_affiliation, variables.cursor)
            all_edges == fr.all_edges \o filtered_edges(data.edges)
        IN  /\ _make_request("recursive_loc", variables, resp,
                             IF resp.status = 200 THEN data ELSE NoPage)
            /\ IF resp.status # 200
               THEN Leave(Raised(RequestError("recursive_loc", resp)))
               ELSE IF LastPage(data)
               THEN /\ cpc' = "get_lines_of_code"
                    /\ fr' = [fr EXCEPT !.all_edges = all_edges, !.edges = all_edges]
                    /\ UNCHANGED <<ret, rf>>
               ELSE /\ fr' = [fr EXCEPT !.all_edges = all_edges,
                                        !.cursor = NextCursor(fr.cursor, data)]
                    /\ UNCHANGED <<cpc, ret, rf>>
    /\ UNCHANGED <<call, remote, LocGhosts>>

batch_size == 10

\* the total is kept from going below zero
LocResult_clamped(total_added, total_deleted, total_commits) ==
    <<total_added, total_deleted,
      IF total_added < total_deleted THEN 0 ELSE total_added - total_deleted,
      total_commits, FALSE>>

\* the result list of get_lines_of_code
LocResult(total_added, total_deleted, total_commits) ==
    <<total_added, total_deleted, total_added - total_deleted, total_commits, FALSE>>

\* the loops of get_lines_of_code: the next edge of the batch, the next
\* batch, or the return
get_lines_of_code ==
    /\ cpc = "get_lines_of_code"
    /\ LET batch == Slice(fr.edges, fr.i, fr.i + batch_size) IN
       IF fr.i >= Len(fr.edges)
       THEN /\ Leave(Returned(LocResult(fr.total_added, fr.total_deleted,
                                        fr.total_commits)))
            /\ UNCHANGED attempted
       ELSE IF fr.k >= Len(batch)
       THEN /\ fr' = [fr EXCEPT !.i = @ + batch_size, !.k = 0]
            /\ UNCHANGED <<cpc, ret, rf, attempted>>
       ELSE /\ cpc' = "participation"
            /\ fr' = [fr EXCEPT !.k = @ + 1]
            /\ rf' = [repo_name |-> batch[fr.k + 1].nameWithOwner,
                      total_additions |-> 0, total_deletions |-> 0,
                      total_commits |-> 0, commits_data |-> <<>>, c |-> 0]
            /\ attempted' = Append(attempted, batch[fr.k + 1].nameWithOwner)
            /\ UNCHANGED ret
    /\ UNCHANGED <<query_count, call, remote, reqs, rest_calls, warnings,
                   raisedFor, sumReturned, detail_errors>>

ConnectionError == [type |-> "ConnectionError"]

StatsError(repo_name, status) ==
    [type |-> "Exception", repo_name |-> repo_name, status |-> status]

\* a detail fetch that raises aborts the whole call (no try/except)
Caught_abort(e) ==
    /\ Leave(Raised(e))
    /\ UNCHANGED warnings

\* get_lines_of_code, except branch: warn and go on with the next edge
Caught(e) ==
    /\ warnings' = Append(warnings, [repo_name |-> rf.repo_name, error |-> e])
    /\ cpc' = "get_lines_of_code"
    /\ rf' = NoFrame
    /\ UNCHANGED <<fr, ret>>

\* get_lines_of_code, try branch after the detail fetch returned repo_stats
Accumulate(repo_stats) ==
    /\ fr' = [fr EXCEPT !.total_added = @ + repo_stats.additions,
                        !.total_deleted = @ + repo_stats.deletions,
                        !.total_commits = @ + repo_stats.commits]
    /\ cpc' = "get_lines_of_code"
    /\ rf' = NoFrame
    /\ UNCHANGED <<warnings, ret>>

\* mutant: what was summed for the repository before the exception is added
\* to the totals
FetchRaises_keeps_partial(e) ==
    /\ raisedFor' = raisedFor \cup {rf.repo_name}
    /\ UNCHANGED sumReturned
    /\ warnings' = Append(warnings, [repo_name |-> rf.repo_name, error |-> e])
    /\ cpc' = "get_lines_of_code"
    /\ fr' = [fr EXCEPT !.total_added = @ + rf.total_additions,
                        !.total_deleted = @ + rf.total_deletions,
                        !.total_commits = @ + rf.total_commits]
    /\ rf' = NoFrame
    /\ UNCHANGED ret

\* the detail fetch of rf.repo_name raises e into get_lines_of_code
FetchRaises(e) ==
    /\ raisedFor' = raisedFor \cup {rf.repo_name}
    /\ UNCHANGED sumReturned
    /\ Caught(e)

\* the detail fetch of rf.repo_name returns repo_stats to get_lines_of_code
FetchReturns(repo_stats) ==
    /\ sumReturned' = [additions |-> sumReturned.additions + repo_stats.additions,
                       deletions |-> sumReturned.deletions + repo_stats.deletions,
                       commits |-> sumReturned.commits + repo_stats.commits]
    /\ UNCHANGED raisedFor
    /\ Accumulate(repo_stats)

\* the detail request made for rf.repo_name got resp: a response other than
\* a success is noted
Noted(request, resp) ==
    detail_errors' =
        IF resp.raises \/ resp.status # 200
        THEN detail_errors \cup {[repo_name |-> rf.repo_name, request |-> request]}
        ELSE detail_errors

\* the dict _get_repository_commit_stats returns
repo_stats_of(locals) ==
    [additions |-> locals.total_additions,
     deletions |-> locals.total_deletions,
     commits |-> locals.total_commits]

\* _get_repository_commit_stats: the participation request
participation ==
    /\ cpc = "participation"
    /\ rest_calls' = rest_calls + 1
    /\ \E resp \in ParticipationAnswers(rf.repo_name) :
        /\ Noted("participation", resp)
        /\ IF resp.raises THEN FetchRaises(ConnectionError)
           ELSE IF resp.status # 200
           THEN FetchRaises(StatsError(rf.repo_name, resp.status))
           ELSE /\ cpc' = "commits"
                /\ UNCHANGED <<fr, rf, ret, warnings, raisedFor, sumReturned>>
    /\ UNCHANGED <<query_count, call, remote, reqs, attempted>>

\* _get_repository_commit_stats: the commit list request
commits ==
    /\ cpc = "commits"
    /\ rest_calls' = rest_calls + 1
    /\ \E resp \in CommitsAnswers(rf.repo_name), n \in CommitCounts(rf.repo_name) :
        /\ Noted("commits", resp)
        /\ IF resp.raises THEN FetchRaises(ConnectionError)
           ELSE IF resp.status # 200 \/ n = 0 THEN FetchReturns(repo_stats_of(rf))
           ELSE /\ cpc' = "commit_detail"
                /\ rf' = [rf EXCEPT !.commits_data = [j \in 1..n |-> [sha |-> j]], !.c = 1]
                /\ UNCHANGED <<fr, ret, warnings, raisedFor, sumReturned>>
    /\ UNCHANGED <<query_count, call, remote, reqs, attempted>>

\* the running sums after one commit detail response
CountCommit(locals, resp, commit_detail) ==
    IF resp.status = 200 /\ "stats" \in DOMAIN commit_detail
    THEN [locals EXCEPT
            !.total_additions = @ + Get(commit_detail.stats, "additions", 0),
            !.total_deletions = @ + Get(commit_detail.stats, "deletions", 0),
            !.total_commits = @ + 1]
    ELSE locals

\* _get_repository_commit_stats: the detail request of one commit
commit_detail ==
    /\ cpc = "commit_detail"
    /\ rest_calls' = rest_calls + 1
    /\ \E resp \in DetailAnswers(rf.repo_name, rf.c),
          detail \in DetailDocuments(rf.repo_name, rf.c) :
        /\ Noted("commit_detail", resp)
        /\ IF resp.raises THEN FetchRaises(ConnectionError)
           ELSE LET locals == CountCommit(rf, resp, detail) IN
                IF rf.c = Len(rf.commits_data)
                THEN FetchReturns(repo_stats_of(locals))
                ELSE /\ rf' = [locals EXCEPT !.c = @ + 1]
                     /\ UNCHANGED <<cpc, fr, ret, warnings, raisedFor, sumReturned>>
    /\ UNCHANGED <<query_count, call, remote, reqs, attempted>>

\* the steps of the client, whoever called it
ClientStep ==
    \/ get_user_info
    \/ get_follower_count
    \/ get_commit_stats
    \/ get_repository_stats
    \/ _get_total_stars
    \/ _get_all_repository_edges
    \/ get_lines_of_code
    \/ participation
    \/ commits
    \/ commit_detail

\* A reference to a dict of counters: to self.query_count itself, or to a
\* dict of its own.
\* mutant: the dict itself is returned.
copy_reference(d) == [aliased |-> TRUE]

\* dict.copy(): a new dict with the items of d
copy(d) == [aliased |-> FALSE, dict |-> d]

\* github_api.py lines 333-335
get_query_stats == copy(query_count)

\* the dict a reference is to
Deref(r) == IF r.aliased THEN query_count ELSE r.dict

\* github_api.py lines 337-339
get_total_queries == SumSeq([j \in 1..6 |->
    query_count[<<"user_getter", "follower_getter", "graph_repos_stars",
                  "recursive_loc", "graph_commits", "loc_query">>[j]]])

(***************************************************************************)
(* ConfigManager.  self.config either IS the class attribute               *)
(* DEFAULT_CONFIG (the fallback of _load_config returns the object itself, *)
(* not a copy) or is a dict of its own parsed from the configuration file. *)
(***************************************************************************)
\* mutant: the handle is stored with an at sign instead of the host.
twitter_prefix_at == <<"@">>

\* config.py line 85: the prefix of a merged twitter link.
twitter_prefix ==
    <<"t", "w", "i", "t", "t", "e", "r", ".", "c", "o", "m", "/">>

\* config.py lines 15-36: DEFAULT_CONFIG as the class body builds it.
DEFAULT_CONFIG_0 ==
    [ environment |->
          [ os |-> <<"m", "a", "c", "O", "S", " ", "S", "e", "q", "u", "o", "i", "a">>,
            version |-> <<"1", "5", ".", "5", " ", "(", "2", "4", "F", "7", "4", ")">>,
            editor |->
                <<"V", "S", " ", "C", "o", "d", "e", " ", "(", "1", ".", "1", "0", "0", ".", "2", ")">> ],
      packaging_languages |->
          [ languages |->
                << <<"T", "y", "p", "e", "S", "c", "r", "i", "p", "t">>,
                   <<"P", "y", "t", "h", "o", "n">>,
                   <<"G", "o">>,
                   <<"R", "e", "a", "c", "t">> >> ],
      server_region |->
          [ region |->
                <<"E", "u", "r", "o", "p", "e", "/", "L", "o", "n", "d", "o", "n">> ],
      host |->
          [ platform |->
                <<"M", "a", "r", "k", "e", "t", "p", "l", "a", "c", "e", " ",
                  "P", "l", "a", "t", "f", "o", "r", "m", "s">> ],
      social |->
          [ linkedin |->
                <<"l", "i", "n", "k", "e", "d", "i", "n", ".", "c", "o", "m", "/",
                  "l", "e", "w", "i", "s", "e", "l", "b", "o", "r", "n">>,
            twitter |->
                <<"t", "w", "i", "t", "t", "e", "r", ".", "c", "o", "m", "/",
                  "l", "e", "l", "b", "o", "r", "n">>,
            website |->
                <<"l", "e", "w", "i", "s", "e", "l", "b", "o", "r", "n", ".",
                  "c", "o", "m">>,
            email |->
                <<"l", "e", "w", "i", "s", "@", "l", "e", "w", "i", "s", "e",
                  "l", "b", "o", "r", "n", ".", "c", "o", "m">> ] ]

EmptyDict == [k \in {} |-> None]
NoneDict == [None |-> TRUE]         \* None where a dict is expected

\* The configuration file: absent, unparseable, or a JSON object.
FileNotFound == [file |-> "missing"]
JSONDecodeError == [file |-> "invalid"]
JSONFile(obj) == [file |-> "json", object |-> obj]

\* bool(v) of a string or None; bool(d) of a dict or None.
Truthy(v) == v # None /\ v # <<>>
TruthyDict(d) == d # NoneDict /\ DOMAIN d # {}

\* config.py lines 43-56.
_load_config(file) ==
    IF file.file = "json" THEN [aliased |-> FALSE, dict |-> file.object]
                          ELSE [aliased |-> TRUE]

\* The dict self.config refers to.
self_config == IF config.aliased THEN DEFAULT_CONFIG ELSE config.dict

\* An in-place change of the dict self.config refers to.
Mutate(d) ==
    IF config.aliased
    THEN DEFAULT_CONFIG' = d /\ UNCHANGED config
    ELSE config' = [config EXCEPT !.dict = d] /\ UNCHANGED DEFAULT_CONFIG

\* config.py lines 58-68: get('section.key', default).  A missing key is the
\* KeyError branch; the sections of the configurations modelled are dicts.
get(section, key, default) ==
    IF section \in DOMAIN self_config /\ key \in DOMAIN self_config[section]
    THEN self_config[section][key]
    ELSE default

\* mutant: the "only if not already set" test is dropped.
MayFill_always(social, field) == TRUE

\* config.py lines 82, 84, 86: the second conjunct of the three tests.
MayFill(social, field) ==
    field \notin DOMAIN social \/ ~Truthy(social[field])

\* config.py lines 82-87: one of the three conditional assignments.
Fill(social, github_data, field, value) ==
    IF Truthy(Get(github_data, field, None)) /\ MayFill(social, field)
    THEN Put(social, field, value)
    ELSE social

\* mutant: the social section is created before the data is looked at.
merged_config_section_first(c, github_data) ==
    LET c1 == IF "social" \notin DOMAIN c THEN Put(c, "social", EmptyDict)
                                           ELSE c
    IN  IF ~TruthyDict(github_data) THEN c1
        ELSE LET s1 == Fill(c1.social, github_data, "website", github_data.website)
                 s2 == Fill(s1, github_data, "twitter",
                            twitter_prefix \o github_data.twitter)
                 s3 == Fill(s2, github_data, "email", github_data.email)
             IN  Put(c1, "social", s3)

\* config.py lines 70-89: the dict self.config refers to after the call.
merged_config(c, github_data) ==
    IF ~TruthyDict(github_data) THEN c
    ELSE LET c1 == IF "social" \notin DOMAIN c THEN Put(c, "social", EmptyDict)
                                               ELSE c
             s1 == Fill(c1.social, github_data, "website", github_data.website)
             s2 == Fill(s1, github_data, "twitter",
                        twitter_prefix \o github_data.twitter)
             s3 == Fill(s2, github_data, "email", github_data.email)
         IN  Put(c1, "social", s3)

NoMerge == [none |-> TRUE]

\* ConfigManager.__init__ (config.py lines 38-41) at module import.
NewConfigManager(file) ==
    /\ DEFAULT_CONFIG = DEFAULT_CONFIG_0
    /\ config = _load_config(file)
    /\ lastMerge = NoMerge

\* ConfigManager.merge_github_data; lastMerge records the call.
merge_github_data(github_data) ==
    /\ Mutate(merged_config(self_config, github_data))
    /\ lastMerge' = [before |-> self_config, github_data |-> github_data]

\* config.py lines 138-171.
validate_config ==
    /\ {"environment", "packaging_languages", "server_region", "host",
        "social"} \subseteq DOMAIN self_config
    /\ "os" \in DOMAIN self_config.environment
    /\ "languages" \in DOMAIN self_config.packaging_languages
    /\ "region" \in DOMAIN self_config.server_region
    /\ "platform" \in DOMAIN self_config.host

(***************************************************************************)
(* SVGGenerator: the substitution of statistics and configuration values   *)
(* into a template document.                                               *)
(***************************************************************************)
\* svg_generator.py lines 114-147: the braced tokens of the replace calls.
TOKEN ==
    [ COMMITS |->
          <<"{", "C", "O", "M", "M", "I", "T", "S", "}">>,
      CONTRIB |->
          <<"{", "C", "O", "N", "T", "R", "I", "B", "}">>,
      STARS |->
          <<"{", "S", "T", "A", "R", "S", "}">>,
      LOC_TOTAL |->
          <<"{", "L", "O", "C", "_", "T", "O", "T", "A", "L", "}">>,
      LOC_ADD |->
          <<"{", "L", "O", "C", "_", "A", "D", "D", "}">>,
      LOC_DEL |->
          <<"{", "L", "O", "C", "_", "D", "E", "L", "}">>,
      AGE |->
          <<"{", "A", "G", "E", "}">>,
      ENVIRONMENT |->
          <<"{", "E", "N", "V", "I", "R", "O", "N", "M", "E", "N", "T", "}">>,
      LANGUAGES |->
          <<"{", "L", "A", "N", "G", "U", "A", "G", "E", "S", "}">>,
      SERVER_REGION |->
          <<"{", "S", "E", "R", "V", "E", "R", "_", "R", "E", "G", "I", "O", "N", "}">>,
      HOST_PLATFORM |->
          <<"{", "H", "O", "S", "T", "_", "P", "L", "A", "T", "F", "O", "R", "M", "}">>,
      LINKEDIN |->
          <<"{", "L", "I", "N", "K", "E", "D", "I", "N", "}">>,
      BUILD_TIMESTAMP |->
          <<"{", "B", "U", "I", "L", "D", "_", "T", "I", "M", "E", "S", "T", "A", "M", "P", "}">> ]

\* svg_generator.py lines 141-143: the bare literals of the social steps.
\* mutant: the pattern stops after the host name.
LITERAL_TWITTER_host ==
    <<"t", "w", "i", "t", "t", "e", "r", ".", "c", "o", "m", "/">>

LITERAL_TWITTER ==
    <<"t", "w", "i", "t", "t", "e", "r", ".", "c", "o", "m", "/", "l", "e",
    "l", "b", "o", "r", "n">>
LITERAL_WEBSITE ==
    <<"l", "e", "w", "i", "s", "e", "l", "b", "o", "r", "n", ".", "c", "o",
    "m">>
LITERAL_EMAIL ==
    <<"l", "e", "w", "i", "s", "@", "l", "e", "w", "i", "s", "e", "l", "b",
    "o", "r", "n", ".", "c", "o", "m">>

\* s occurs in text at position i.
OccursAt(text, s, i) ==
    /\ i + Len(s) - 1 <= Len(text)
    /\ text[i] = s[1]
    /\ SubSeq(text, i, i + Len(s) - 1) = s

\* The positions at which the non-empty s occurs in text.
Occurrences(text, s) == { i \in 1..Len(text) : OccursAt(text, s, i) }

Occurs(text, s) == Occurrences(text, s) # {}

\* str.find: the leftmost occurrence.
Find(text, s) ==
    CHOOSE i \in Occurrences(text, s) : \A j \in Occurrences(text, s) : i <= j

\* mutant: only the first occurrence is replaced.
Replace_first(content, old, new) ==
    IF ~Occurs(content, old) THEN content
    ELSE LET i == Find(content, old)
         IN  SubSeq(content, 1, i - 1) \o new
             \o SubSeq(content, i + Len(old), Len(content))

\* content.replace(old, new): every occurrence of the non-empty old, found
\* from the left and not overlapping, becomes new.
RECURSIVE Replace(_, _, _)
Replace(content, old, new) ==
    IF ~Occurs(content, old) THEN content
    ELSE LET i == Find(content, old)
         IN  SubSeq(content, 1, i - 1) \o new
             \o Replace(SubSeq(content, i + Len(old), Len(content)), old, new)

\* sep.join(parts)
RECURSIVE Join(_, _)
Join(sep, parts) ==
    IF parts = <<>> THEN <<>>
    ELSE IF Len(parts) = 1 THEN Head(parts)
    ELSE Head(parts) \o sep \o Join(sep, Tail(parts))

Digits == <<"0", "1", "2", "3", "4", "5", "6", "7", "8", "9">>

\* str(n) of n >= 0
RECURSIVE Decimal(_)
Decimal(n) ==
    IF n < 10 THEN <<Digits[n + 1]>>
    ELSE Decimal(n \div 10) \o <<Digits[(n % 10) + 1]>>

\* a group of three digits
Group(n) ==
    <<Digits[(n \div 100) + 1], Digits[((n \div 10) % 10) + 1], Digits[(n % 10) + 1]>>

RECURSIVE Grouped(_)
Grouped(n) ==
    IF n < 1000 THEN Decimal(n)
    ELSE Grouped(n \div 1000) \o <<",">> \o Group(n % 1000)

\* utils.py lines 51-56: f"{number:,}"
format_number(number) ==
    IF number < 0 THEN <<"-">> \o Grouped(-number) ELSE Grouped(number)

\* svg_generator.py lines 77-89; loc_data is [added, deleted, total].
_format_data_for_svg(commit_data, star_data, contrib_data, loc_data) ==
    [ commit_formatted |-> format_number(commit_data),
      star_formatted |-> format_number(star_data),
      contrib_formatted |-> format_number(contrib_data),
      loc_add_formatted |-> format_number(loc_data[1]),
      loc_del_formatted |-> format_number(loc_data[2]),
      loc_total_formatted |-> format_number(loc_data[3]) ]

\* svg_generator.py lines 91-106; the defaults spelled out there are the
\* strings of DEFAULT_CONFIG.
_get_config_data ==
    [ server_region |-> get("server_region", "region", DEFAULT_CONFIG_0.server_region.region),
      host_platform |-> get("host", "platform", DEFAULT_CONFIG_0.host.platform),
      environment_os |-> get("environment", "os", DEFAULT_CONFIG_0.environment.os),
      environment_version |-> get("environment", "version", DEFAULT_CONFIG_0.environment.version),
      environment_editor |-> get("environment", "editor", DEFAULT_CONFIG_0.environment.editor),
      packaging_languages |->
          Join(<<",", " ">>, get("packaging_languages", "languages",
                                 DEFAULT_CONFIG_0.packaging_languages.languages)),
      social_linkedin |-> get("social", "linkedin", DEFAULT_CONFIG_0.social.linkedin),
      social_twitter |-> get("social", "twitter", DEFAULT_CONFIG_0.social.twitter),
      social_website |-> get("social", "website", DEFAULT_CONFIG_0.social.website),
      social_email |-> get("social", "email", DEFAULT_CONFIG_0.social.email) ]

\* svg_generator.py line 128: the f-string of the environment line; the
\* bullet character is written "U+2022".
environment_line(config_data) ==
    config_data.environment_os \o <<" ", "(">> \o config_data.environment_version
    \o <<")", " ", "U+2022", " ">> \o config_data.environment_editor

Step(old, new) == [old |-> old, new |-> new]

\* svg_generator.py lines 114-147: the replace calls in the order the code
\* makes them; the last one is made only for a non-empty build_timestamp.
Replacements(formatted_data, age_data, config_data, build_timestamp) ==
    << Step(TOKEN.COMMITS, formatted_data.commit_formatted),
       Step(TOKEN.CONTRIB, formatted_data.contrib_formatted),
       Step(TOKEN.STARS, formatted_data.star_formatted),
       Step(TOKEN.LOC_TOTAL, formatted_data.loc_total_formatted),
       Step(TOKEN.LOC_ADD, formatted_data.loc_add_formatted),
       Step(TOKEN.LOC_DEL, formatted_data.loc_del_formatted),
       Step(TOKEN.AGE, age_data),
       Step(TOKEN.ENVIRONMENT, environment_line(config_data)),
       Step(TOKEN.LANGUAGES, config_data.packaging_languages),
       Step(TOKEN.SERVER_REGION, config_data.server_region),
       Step(TOKEN.HOST_PLATFORM, config_data.host_platform),
       Step(TOKEN.LINKEDIN, config_data.social_linkedin),
       Step(LITERAL_TWITTER, config_data.social_twitter),
       Step(LITERAL_WEBSITE, config_data.social_website),
       Step(LITERAL_EMAIL, config_data.social_email) >>
    \o IF Truthy(build_timestamp)
       THEN << Step(TOKEN.BUILD_TIMESTAMP, build_timestamp) >>
       ELSE << >>

\* content = content.replace(old, new), for each step in turn.
RECURSIVE ApplySteps(_, _)
ApplySteps(content, steps) ==
    IF steps = <<>> THEN content
    ELSE ApplySteps(Replace(content, Head(steps).old, Head(steps).new), Tail(steps))

\* svg_generator.py lines 108-149.
_apply_replacements(content, formatted_data, age_data, config_data, build_timestamp) ==
    ApplySteps(content,
               Replacements(formatted_data, age_data, config_data, build_timestamp))

\* svg_generator.py lines 58-66: content after the replacements.
Substituted(content) ==
    _apply_replacements(content,
                        _format_data_for_svg(args.commit_data, args.star_data,
                                             args.contrib_data, args.loc_data),
                        args.age_data, _get_config_data, args.build_timestamp)

\* The replace calls made for the arguments at hand.
CurrentSteps ==
    Replacements(_format_data_for_svg(args.commit_data, args.star_data,
                                      args.contrib_data, args.loc_data),
                 args.age_data, _get_config_data, args.build_timestamp)

NoArguments == [none |-> TRUE]
NoReorder == [none |-> TRUE]

\* No substitution is in progress.
NoSubstitution ==
    /\ document = <<>>
    /\ passes = <<>>
    /\ args = NoArguments
    /\ reordered = NoReorder

NoStats == [none |-> TRUE]
Missing == <<"missing">>
Running == <<>>
Exited(status) == <<status>>

\* No run is in progress.
NoRun ==
    /\ env = [ACCESS_TOKEN |-> TRUE, GITHUB_ACTIONS |-> FALSE]
    /\ files = <<>>
    /\ _github_api_instance = <<"GitHubAPI">>
    /\ pc = <<"idle">>
    /\ run_data = EmptyDict
    /\ exit_status = Running
    /\ opened = <<>>
    /\ attempts = <<>>
    /\ query_stats = NoStats
    /\ console = <<>>
    /\ completed = <<>>
    /\ raisedAt = None

(***************************************************************************)
(* A test driver: calls one method of a new client, with arguments and a   *)
(* remote listing drawn from small sets.                                   *)
(***************************************************************************)
StarsFrame(count_type, owner_affiliation) ==
    [count_type |-> count_type, owner_affiliation |-> owner_affiliation,
     cursor |-> None, total_stars |-> 0]

LocFrame(owner_affiliation, edges) ==
    [owner_affiliation |-> owner_affiliation, cursor |-> None,
     all_edges |-> <<>>, edges |-> edges, i |-> 0, k |-> 0,
     total_added |-> 0, total_deleted |-> 0, total_commits |-> 0]

CallUserInfo ==
    Enter("get_user_info", "get_user_info", <<>>, <<>>, NoFrame)

CallFollowerCount ==
    Enter("get_follower_count", "get_follower_count", <<>>, <<>>, NoFrame)

CallCommitStats ==
    Enter("get_commit_stats", "get_commit_stats", <<>>, <<>>,
          [start_date |-> "start", end_date |-> "end"])

CallRepositoryStats(count_type, owner_affiliation, listing) ==
    Enter(count_type, "get_repository_stats", owner_affiliation, listing,
          StarsFrame(count_type, owner_affiliation))

CallLinesOfCode(owner_affiliation, listing) ==
    Enter("get_lines_of_code", "_get_all_repository_edges", owner_affiliation,
          listing, LocFrame(owner_affiliation, <<>>))

DriverCall ==
    /\ call.op = "none"
    /\ \/ CallUserInfo
       \/ CallFollowerCount
       \/ CallCommitStats
       \/ \E count_type \in {"repos", "stars"}, A \in AffiliationLists, l \in Listings :
            CallRepositoryStats(count_type, A, l)
       \/ \E A \in AffiliationLists, l \in Listings : CallLinesOfCode(A, l)

Init == NewClient /\ NewConfigManager(FileNotFound) /\ NoSubstitution /\ NoRun

Next ==
    \/ DriverCall /\ UNCHANGED <<configVars, svgVars, runVars>>
    \/ ClientStep /\ UNCHANGED <<configVars, svgVars, runVars>>

Spec == Init /\ [][Next]_vars

(***************************************************************************)
(* A test driver of the configuration merge: a ConfigManager is built from *)
(* a configuration file and merge_github_data is called with user          *)
(* information as get_user_info returns it, or with None or an empty dict. *)
(***************************************************************************)
SocialFields == {"website", "twitter", "email"}

\* A social field of the configuration file: empty, null or set.
ConfiguredValues == { <<>>, None, <<"c">> }

\* What the API reports for a field: null, empty or a value.
FetchedValues == { None, <<>>, <<"g">> }

Socials == UNION { [S -> ConfiguredValues] : S \in SUBSET SocialFields }

OtherSections ==
    [k \in DOMAIN DEFAULT_CONFIG_0 \ {"social"} |-> DEFAULT_CONFIG_0[k]]

\* A configuration file with a personal section, as the caller of
\* test_config_override sets one, a linkedin link and an empty website.
custom_location == <<"C", "u", "s", "t", "o", "m">>
PersonalFile ==
    JSONFile(Put(Put(DEFAULT_CONFIG_0, "personal", [location |-> custom_location]),
                 "social", [DEFAULT_CONFIG_0.social EXCEPT !.website = <<>>]))

ConfigFiles ==
    {FileNotFound, JSONDecodeError, JSONFile(OtherSections), PersonalFile}
    \cup { JSONFile(Put(OtherSections, "social", social)) : social \in Socials }

\* What the API reports as the location of the user.
FetchedLocations == { None, <<"S", "F">> }

GithubData ==
    {NoneDict, EmptyDict}
    \cup { user_info([id |-> "u1", createdAt |-> "2020", location |-> l,
                       websiteUrl |-> w, twitterUsername |-> t, email |-> e]) :
             l \in FetchedLocations,
             w \in FetchedValues, t \in FetchedValues, e \in FetchedValues }

InitMerge ==
    /\ NewClient
    /\ \E file \in ConfigFiles : NewConfigManager(file)
    /\ NoSubstitution
    /\ NoRun

Merge == \E github_data \in GithubData : merge_github_data(github_data)

NextMerge == Merge /\ UNCHANGED <<clientVars, svgVars, runVars>>

SpecMerge == InitMerge /\ [][NextMerge]_vars

(***************************************************************************)
(* A test driver of the substitution: _apply_replacements is applied to a  *)
(* document built from a few chunks, once and then once more to its own    *)
(* output, or with two neighbouring replace calls exchanged.               *)
(***************************************************************************)
FOLLOWERS_PLACEHOLDER ==
    <<"{", "F", "O", "L", "L", "O", "W", "E", "R", "S", "}">>
example_org ==
    <<"e", "x", "a", "m", "p", "l", "e", ".", "o", "r", "g">>
www_website ==
    <<"w", "w", "w", ".", "l", "e", "w", "i", "s", "e", "l", "b", "o", "r",
    "n", ".", "c", "o", "m">>
me_example_org ==
    <<"m", "e", "@", "e", "x", "a", "m", "p", "l", "e", ".", "o", "r", "g">>
age_33 ==
    <<"3", "3", " ", "y", "e", "a", "r", "s", ",", " ", "5", " ", "m", "o",
    "n", "t", "h", "s">>
age_0 ==
    <<"0", " ", "d", "a", "y", "s">>
timestamp_1 ==
    <<"T", "u", "e", " ", "J", "u", "n", " ", "3", " ", "1", "4", ":", "0",
    "1", ":", "5", "2">>

\* Every braced token once.
AllTokens ==
    TOKEN.COMMITS \o TOKEN.CONTRIB \o TOKEN.STARS \o TOKEN.LOC_TOTAL
    \o TOKEN.LOC_ADD \o TOKEN.LOC_DEL \o TOKEN.AGE \o TOKEN.ENVIRONMENT
    \o TOKEN.LANGUAGES \o TOKEN.SERVER_REGION \o TOKEN.HOST_PLATFORM
    \o TOKEN.LINKEDIN \o TOKEN.BUILD_TIMESTAMP

Chunks ==
    { AllTokens, TOKEN.STARS, FOLLOWERS_PLACEHOLDER, LITERAL_EMAIL,
      LITERAL_TWITTER, <<" ">> }

RECURSIVE DocumentsUpTo(_)
DocumentsUpTo(n) ==
    IF n = 0 THEN { <<>> }
    ELSE LET shorter == DocumentsUpTo(n - 1)
         IN  shorter \cup { d \o c : d \in shorter, c \in Chunks }

Documents == DocumentsUpTo(MaxChunks)

\* Arguments of update_svg_files.
ArgumentSets ==
    { [ age_data |-> age_33, commit_data |-> 3145, star_data |-> 503,
        repo_data |-> 42, contrib_data |-> 7, follower_data |-> 12,
        loc_data |-> <<1234567, 4567, 1230000>>, build_timestamp |-> timestamp_1 ],
      [ age_data |-> age_0, commit_data |-> 0, star_data |-> 1000,
        repo_data |-> 0, contrib_data |-> 0, follower_data |-> 0,
        loc_data |-> <<10, 1500, -1490>>, build_timestamp |-> None ] }

\* Configuration files that set the host platform and the social links.
SubstitutionConfigs ==
    { [DEFAULT_CONFIG_0 EXCEPT !.host.platform = h, !.social.website = w,
                               !.social.email = e] :
        h \in {DEFAULT_CONFIG_0.host.platform, DEFAULT_CONFIG_0.social.website},
        w \in {DEFAULT_CONFIG_0.social.website, example_org, www_website},
        e \in {DEFAULT_CONFIG_0.social.email, me_example_org} }

\* steps with the calls i and i+1 exchanged.
Exchanged(steps, i) ==
    [k \in 1..Len(steps) |-> IF k = i THEN steps[i + 1]
                             ELSE IF k = i + 1 THEN steps[i]
                             ELSE steps[k]]

FirstPass ==
    /\ passes = <<>>
    /\ passes' = <<Substituted(document)>>
    /\ UNCHANGED <<document, args, reordered>>

SecondPass ==
    /\ Len(passes) = 1
    /\ passes' = Append(passes, Substituted(passes[1]))
    /\ UNCHANGED <<document, args, reordered>>

Reordered ==
    /\ passes = <<>> /\ reordered = NoReorder
    /\ \E i \in 1..(Len(CurrentSteps) - 1) :
           reordered' = [exchanged |-> i,
                         content |-> ApplySteps(document, Exchanged(CurrentSteps, i))]
    /\ UNCHANGED <<document, args, passes>>

InitSubst ==
    /\ NewClient
    /\ \E file \in {FileNotFound} \cup { JSONFile(c) : c \in SubstitutionConfigs } :
           NewConfigManager(file)
    /\ document \in Documents
    /\ args \in ArgumentSets
    /\ passes = <<>>
    /\ reordered = NoReorder
    /\ NoRun

NextSubst ==
    \/ FirstPass /\ UNCHANGED <<clientVars, configVars, runVars>>
    \/ SecondPass /\ UNCHANGED <<clientVars, configVars, runVars>>

SpecSubst == InitSubst /\ [][NextSubst]_vars

NextOrder == Reordered /\ UNCHANGED <<clientVars, configVars, runVars>>

SpecOrder == InitSubst /\ [][NextOrder]_vars

(***************************************************************************)
(* ProfileGenerator: the constructor and run(), which collects the data    *)
(* step by step through the client and then updates the two templates.     *)
(***************************************************************************)
birthday_1992 ==
    <<"1", "9", "9", "2", "-", "0", "6", "-", "0", "3">>
birthday_unparsable ==
    <<"3", " ", "J", "u", "n", "e", " ", "1", "9", "9", "2">>
run_template ==
    <<"<", "t", "e", "x", "t", ">", "{", "S", "T", "A", "R", "S", "}", " ",
    "s", "t", "a", "r", "s", ",", " ", "{", "A", "G", "E", "}", "<", "/",
    "t", "e", "x", "t", ">">>

\* mutant: the repository count is taken before the star count.
CollectionSteps_repos_first ==
    << "user_info", "merge", "age", "repos", "stars", "contrib_repos",
       "followers", "loc_data", "commits" >>

\* profile.py lines 77-133: the steps of _collect_data, in order.
CollectionSteps ==
    << "user_info", "merge", "age", "stars", "repos", "contrib_repos",
       "followers", "loc_data", "commits" >>

\* svg_generator.py lines 16-17, in the order update_svg_files takes them.
SvgFiles == << "profile-dark.svg", "profile-light.svg" >>

\* The process environment and the working directory at start.
Environments == [ACCESS_TOKEN : BOOLEAN, GITHUB_ACTIONS : BOOLEAN]

RunConfigFiles ==
    { FileNotFound,
      JSONFile(OtherSections),
      JSONFile(Put(DEFAULT_CONFIG_0, "personal", [birthday |-> birthday_1992])),
      JSONFile(Put(DEFAULT_CONFIG_0, "personal", [birthday |-> birthday_unparsable])) }

RunFiles ==
    { [f \in Range(SvgFiles) |-> IF f \in missing THEN Missing ELSE run_template] :
        missing \in { {}, {SvgFiles[1]}, {SvgFiles[2]} } }

\* Listings the remote serves during a run.
RunListings ==
    { NamedListing(<< <<Plain(2)>> >>),
      NamedListing(<< <<Fork(1), Plain(0)>>, <<Plain(3), Archived(4)>> >>) }

\* system_detection.auto_detect_environment on the machine of the run.
DetectedEnvironment ==
    [os |-> <<"L", "i", "n", "u", "x">>, version |-> <<"6">>,
     editor |-> <<"v", "i", "m">>]

\* datetime.strptime(birthday_str, "%Y-%m-%d") succeeds.
Parsable(birthday_str) == birthday_str = birthday_1992

\* utils.calculate_age on the day of the run.
Ages == { age_33 }

\* utils.generate_build_timestamp at the time of the run.
Timestamps == { timestamp_1 }

\* print(...)
Output(msg) == console' = Append(console, msg)

\* sys.exit(status)
Exit(status) == exit_status' = Exited(status) /\ pc' = <<"exited">>

\* config.py lines 117-136: the environment section after the update.
auto_detect_and_update_environment ==
    IF env.GITHUB_ACTIONS THEN UNCHANGED <<DEFAULT_CONFIG, config>>
    ELSE LET environment == IF "environment" \in DOMAIN self_config
                            THEN self_config.environment ELSE EmptyDict
             updated == [k \in DOMAIN environment \cup DOMAIN DetectedEnvironment |->
                           IF k \in DOMAIN DetectedEnvironment
                           THEN DetectedEnvironment[k] ELSE environment[k]]
         IN  Mutate(Put(self_config, "environment", updated))

\* mutant: the templates are not looked for.
validate_svg_files_skipped == TRUE

\* svg_generator.py lines 151-167.
validate_svg_files == \A f \in Range(SvgFiles) : files[f] # Missing

\* profile.py lines 35-53: ProfileGenerator().
Construct ==
    /\ pc = <<"init">>
    /\ IF ~validate_config
       THEN /\ Output([msg |-> "Configuration validation failed"])
            /\ Exit(1)
            /\ UNCHANGED <<DEFAULT_CONFIG, config>>
       ELSE /\ auto_detect_and_update_environment
            /\ IF ~validate_svg_files
               THEN Output([msg |-> "SVG file validation failed"]) /\ Exit(1)
               ELSE /\ pc' = <<"collect", 1>>
                    /\ UNCHANGED <<console, exit_status>>
    /\ UNCHANGED <<lastMerge, clientVars, svgVars, env, _github_api_instance,
                   run_data, files, opened, attempts, query_stats, completed, raisedAt>>

\* mutant: the handler reports the error and the run goes on.
Except_continue(step) ==
    /\ Output([msg |-> "Error during profile generation"])
    /\ raisedAt' = <<step>>
    /\ pc' = <<"_update_svg_files">>
    /\ UNCHANGED exit_status

\* profile.py lines 73-75: an exception raised by a step of _collect_data
\* reaches the handler of run.
Except(step) ==
    /\ Output([msg |-> "Error during profile generation"])
    /\ raisedAt' = <<step>>
    /\ Exit(1)

\* The step has completed; the next one, or the return of _collect_data.
Proceed(k) ==
    /\ completed' = Append(completed, CollectionSteps[k])
    /\ pc' = IF k = Len(CollectionSteps) THEN <<"_update_svg_files">>
                                         ELSE <<"collect", k + 1>>
    /\ UNCHANGED <<console, exit_status, raisedAt>>

\* github_api.py lines 345-350, called at profile.py line 84: the client is
\* created on first use, which raises without ACCESS_TOKEN.
get_github_api ==
    /\ pc = <<"collect", 1>>
    /\ _github_api_instance = None
    /\ IF env.ACCESS_TOKEN
       THEN /\ _github_api_instance' = <<"GitHubAPI">>
            /\ UNCHANGED <<pc, console, exit_status, raisedAt>>
       ELSE /\ Except(CollectionSteps[1])
            /\ UNCHANGED _github_api_instance
    /\ UNCHANGED <<clientVars, configVars, svgVars, env, run_data, files, opened, attempts, query_stats,
                   completed>>

\* The client call a step of _collect_data makes.
ClientCall(step) ==
    \/ step = "user_info" /\ CallUserInfo
    \/ step = "stars" /\ \E l \in RunListings :
           CallRepositoryStats("stars", <<"OWNER">>, l)
    \/ step = "repos" /\ \E l \in RunListings :
           CallRepositoryStats("repos", <<"OWNER">>, l)
    \/ step = "contrib_repos" /\ \E l \in RunListings :
           CallRepositoryStats("repos",
                               <<"OWNER", "COLLABORATOR", "ORGANIZATION_MEMBER">>, l)
    \/ step = "followers" /\ CallFollowerCount
    \/ step = "loc_data" /\ CallLinesOfCode(<<"OWNER">>, NamedListing(<< <<Plain(2)>> >>))
    \/ step = "commits" /\ CallCommitStats

\* A step of _collect_data calls the client.
CollectCall ==
    /\ \E k \in 1..Len(CollectionSteps) :
        /\ pc = <<"collect", k>>
        /\ _github_api_instance # None
        /\ ClientCall(CollectionSteps[k])
        /\ pc' = <<"await", k>>
    /\ UNCHANGED <<configVars, svgVars, env, _github_api_instance, run_data,
                   exit_status, files, opened, attempts, query_stats, console, completed, raisedAt>>

\* The dict data after a step has stored its value.
Stored(step, value) ==
    IF step = "user_info"
    THEN Put(Put(run_data, "user_id", value[1]), "github_info", value[2])
    ELSE IF step = "loc_data"
    THEN Put(run_data, "loc_data", <<value[1], value[2], value[3]>>)
    ELSE Put(run_data, step, value)

\* The client call of a step returns or raises.
CollectReturn ==
    /\ \E k \in 1..Len(CollectionSteps) :
        /\ pc = <<"await", k>>
        /\ cpc = "idle"
        /\ IF ret.kind = "raised"
           THEN Except(CollectionSteps[k]) /\ UNCHANGED <<run_data, completed>>
           ELSE run_data' = Stored(CollectionSteps[k], ret.value) /\ Proceed(k)
    /\ UNCHANGED <<clientVars, configVars, svgVars, env, _github_api_instance,
                   files, opened, attempts, query_stats>>

\* profile.py line 91.
CollectMerge ==
    /\ \E k \in 1..Len(CollectionSteps) :
        /\ pc = <<"collect", k>>
        /\ CollectionSteps[k] = "merge"
        /\ merge_github_data(run_data.github_info)
        /\ Proceed(k)
    /\ UNCHANGED <<clientVars, svgVars, env, _github_api_instance, run_data, files,
                   opened, attempts, query_stats>>

\* profile.py lines 94-99: the birthday is read from the configuration and
\* parsed; None or an unparsable string makes strptime raise.
CollectAge ==
    /\ \E k \in 1..Len(CollectionSteps) :
        /\ pc = <<"collect", k>>
        /\ CollectionSteps[k] = "age"
        /\ IF Parsable(get("personal", "birthday", None))
           THEN \E age \in Ages : run_data' = Put(run_data, "age", age) /\ Proceed(k)
           ELSE Except("age") /\ UNCHANGED <<run_data, completed>>
    /\ UNCHANGED <<clientVars, configVars, svgVars, env, _github_api_instance,
                   files, opened, attempts, query_stats>>

\* profile.py lines 165-181: the arguments update_svg_files is called with.
_update_svg_files ==
    /\ pc = <<"_update_svg_files">>
    /\ \E build_timestamp \in Timestamps :
           args' = [ age_data |-> run_data.age, commit_data |-> run_data.commits,
                     star_data |-> run_data.stars, repo_data |-> run_data.repos,
                     contrib_data |-> run_data.contrib_repos,
                     follower_data |-> run_data.followers,
                     loc_data |-> run_data.loc_data,
                     build_timestamp |-> build_timestamp ]
    /\ pc' = <<"update", 1>>
    /\ UNCHANGED <<clientVars, configVars, document, passes, reordered, env,
                   _github_api_instance, run_data, exit_status, files, opened, attempts, query_stats,
                   console, completed, raisedAt>>

\* What the file system does to one call of _update_single_svg: both opens
\* and the write succeed, the file is not there when it is opened for
\* reading, the read fails, the open for writing fails, or the write fails
\* after the open for writing has truncated the file.
IOOutcomes ==
    { "ok", "FileNotFoundError", "read_error", "open_w_error", "write_error" }

\* What a call leaves in a file that held content, new being the text it
\* had to write.
Remains(content, new, outcome) ==
    IF outcome = "ok" THEN { new }
    ELSE IF outcome = "FileNotFoundError" THEN { Missing }
    ELSE IF outcome = "write_error"
    THEN { <<>>, SubSeq(new, 1, Len(new) \div 2) }
    ELSE { content }

\* mutant: the exception leaves update_svg_files and reaches the handler of
\* run.
Recover_propagate(filename, outcome, j) ==
    /\ Output([msg |-> "Error during profile generation"])
    /\ raisedAt' = <<"update_svg_files">>
    /\ Exit(1)

\* svg_generator.py lines 72-75: the two except clauses report the error
\* for filename, and the call returns to update_svg_files.
Recover(filename, outcome, j) ==
    /\ Output(IF outcome = "FileNotFoundError"
              THEN [msg |-> "not found, skipping update", file |-> filename]
              ELSE [msg |-> "Error updating", file |-> filename,
                    error |-> outcome])
    /\ pc' = <<"update", j + 1>>
    /\ UNCHANGED <<exit_status, raisedAt>>

\* svg_generator.py lines 46-75: call j of update_svg_files; the file is
\* read, substituted, opened for writing and written, and an exception of
\* any of these is caught.
_update_single_svg(filename, outcome, j) ==
    /\ attempts' = Append(attempts, [file |-> filename, outcome |-> outcome])
    /\ \E left \in Remains(files[filename],
                           IF files[filename] = Missing THEN <<>>
                           ELSE Substituted(files[filename]),
                           outcome) :
           files' = [files EXCEPT ![filename] = left]
    /\ opened' = IF outcome \in {"ok", "write_error"}
                 THEN Append(opened, filename) ELSE opened
    /\ IF outcome = "ok"
       THEN /\ pc' = <<"update", j + 1>>
            /\ UNCHANGED <<console, exit_status, raisedAt>>
       ELSE Recover(filename, outcome, j)

\* svg_generator.py lines 36-42: one of the two calls of update_svg_files.
update_svg_files ==
    /\ \E j \in 1..Len(SvgFiles), outcome \in IOOutcomes :
        /\ pc = <<"update", j>>
        /\ files[SvgFiles[j]] = Missing => outcome = "FileNotFoundError"
        /\ _update_single_svg(SvgFiles[j], outcome, j)
    /\ UNCHANGED <<clientVars, configVars, svgVars, env, _github_api_instance,
                   run_data, query_stats, completed>>

\* svg_generator.py line 44: update_svg_files reports and returns.
update_svg_files_return ==
    /\ pc = <<"update", Len(SvgFiles) + 1>>
    /\ Output([msg |-> "SVG files updated successfully"])
    /\ pc' = <<"summary">>
    /\ UNCHANGED <<clientVars, configVars, svgVars, env, _github_api_instance,
                   run_data, exit_status, files, opened, attempts, query_stats, completed, raisedAt>>

\* profile.py lines 67-71 and 183-201: the summary, which takes the query
\* statistics of the client; the process then ends normally.
_display_performance_summary ==
    /\ pc = <<"summary">>
    /\ Output([msg |-> "Profile generation completed successfully"])
    /\ query_stats' = [ref |-> get_query_stats, writes |-> 0]
    /\ exit_status' = Exited(0)
    /\ pc' = <<"done">>
    /\ UNCHANGED <<clientVars, configVars, svgVars, env, _github_api_instance,
                   run_data, files, opened, attempts, completed, raisedAt>>

\* A client call of the run in progress.
CollectStep ==
    /\ pc[1] = "await"
    /\ ClientStep
    /\ UNCHANGED <<configVars, svgVars, runVars>>

InitRun ==
    /\ NewClient
    /\ \E file \in RunConfigFiles : NewConfigManager(file)
    /\ NoSubstitution
    /\ env \in Environments
    /\ files \in RunFiles
    /\ _github_api_instance = None
    /\ pc = <<"init">>
    /\ run_data = EmptyDict
    /\ exit_status = Running
    /\ opened = <<>>
    /\ attempts = <<>>
    /\ query_stats = NoStats
    /\ console = <<>>
    /\ completed = <<>>
    /\ raisedAt = None

NextRun ==
    \/ Construct
    \/ get_github_api
    \/ CollectCall
    \/ CollectStep
    \/ CollectReturn
    \/ CollectMerge
    \/ CollectAge
    \/ _update_svg_files
    \/ update_svg_files
    \/ update_svg_files_return
    \/ _display_performance_summary

SpecRun == InitRun /\ [][NextRun]_vars

(***************************************************************************)
(* A test driver of the query statistics: a caller makes one client call   *)
(* after the other, takes the statistics with get_query_stats between      *)
(* them and writes to the dict it was given.                               *)
(***************************************************************************)
MaxRequests == 2    \* a client call is made while fewer requests were counted
MaxWrites == 1      \* writes of the caller to one returned dict

\* The next client call of the caller.
StatsCall ==
    /\ cpc = "idle"
    /\ get_total_queries < MaxRequests
    /\ \/ CallUserInfo
       \/ CallFollowerCount
       \/ CallCommitStats
       \/ \E count_type \in {"repos", "stars"}, l \in RunListings :
            CallRepositoryStats(count_type, <<"OWNER">>, l)
       \/ CallLinesOfCode(<<"OWNER">>, NamedListing(<< <<Plain(2)>> >>))
    /\ UNCHANGED <<configVars, svgVars, runVars>>

\* query_stats = github_api.get_query_stats()
TakeStats ==
    /\ cpc = "idle"
    /\ query_stats' = [ref |-> get_query_stats, writes |-> 0]
    /\ UNCHANGED <<clientVars, configVars, svgVars, env, files,
                   _github_api_instance, pc, run_data, exit_status, opened,
                   attempts, console, completed, raisedAt>>

\* What a caller can make of a dict d with one statement: overwrite an
\* item, add an item, delete an item, or clear the dict.
CallerWrites(d) ==
    { [d EXCEPT ![o] = v] : o \in DOMAIN d, v \in {0, 99} }
    \cup { Put(d, "other", 1) }
    \cup { [k \in DOMAIN d \ {o} |-> d[k]] : o \in DOMAIN d }
    \cup { [k \in {} |-> 0] }

\* An in-place change of the dict r refers to.
Store(r, d) ==
    IF r.aliased
    THEN query_count' = d /\ UNCHANGED <<cpc, call, fr, rf, ret, remote, reqs,
                                         rest_calls, warnings, attempted,
                                         raisedFor, sumReturned, detail_errors>>
    ELSE UNCHANGED clientVars

\* The caller writes to the dict get_query_stats gave it.
WriteStats ==
    /\ query_stats # NoStats
    /\ query_stats.writes < MaxWrites
    /\ \E d \in CallerWrites(Deref(query_stats.ref)) :
        /\ d # Deref(query_stats.ref)
        /\ Store(query_stats.ref, d)
        /\ query_stats' = [ref |-> IF query_stats.ref.aliased THEN query_stats.ref
                                   ELSE [query_stats.ref EXCEPT !.dict = d],
                           writes |-> query_stats.writes + 1]
    /\ UNCHANGED <<configVars, svgVars, env, files, _github_api_instance, pc,
                   run_data, exit_status, opened, attempts, console, completed,
                   raisedAt>>

NextStats ==
    \/ StatsCall
    \/ ClientStep /\ UNCHANGED <<configVars, svgVars, runVars>>
    \/ TakeStats
    \/ WriteStats

SpecStats == Init /\ [][NextStats]_vars

(***************************************************************************)
(* A test driver of the batches of get_lines_of_code: the listing is one   *)
(* page of plain repositories, from none to more than two batches, and the *)
(* REST server answers by script.                                          *)
(***************************************************************************)
MaxEdges == 21      \* repositories of the listing

Seeds == 0..2

\* A one-page listing of n plain repositories.
PlainListing(n) == NamedListing(<< [j \in 1..n |-> Plain(0)] >>)

BatchCall ==
    /\ call.op = "none"
    /\ \E n \in 0..MaxEdges, seed \in Seeds :
           EnterServed("get_lines_of_code", "_get_all_repository_edges",
                       <<"OWNER">>, PlainListing(n), Scripted(seed),
                       LocFrame(<<"OWNER">>, <<>>))

\* The steps of get_lines_of_code and of the methods it calls.
LocStep ==
    \/ _get_all_repository_edges
    \/ get_lines_of_code
    \/ participation
    \/ commits
    \/ commit_detail

NextBatch ==
    \/ BatchCall /\ UNCHANGED <<configVars, svgVars, runVars>>
    \/ LocStep /\ UNCHANGED <<configVars, svgVars, runVars>>

SpecBatch == Init /\ [][NextBatch]_vars

(***************************************************************************)
(* Properties of the statistics client, checked under Spec.                *)
(***************************************************************************)

\* the call in progress or last made is a star count
StarsCall == call.op = "stars"

\* the call in progress or last made is get_lines_of_code
LocCall == call.op = "get_lines_of_code"

\* a pagination loop is between two requests or before its first one
StarsLoopRunning == StarsCall /\ cpc = "get_repository_stats"
EdgesLoopRunning == LocCall /\ cpc = "_get_all_repository_edges"

\* a pagination loop has run to its normal end
StarsLoopDone == StarsCall /\ cpc = "idle" /\ ret.kind = "value"
EdgesLoopDone == LocCall /\ cpc # "_get_all_repository_edges" /\ ret.kind # "raised"

\* the sum of the star counts of every repository of the remote listing
RECURSIVE StarsOf(_)
StarsOf(pages) ==
    IF pages = <<>> THEN 0
    ELSE SumSeq([j \in 1..Len(Head(pages)) |-> Head(pages)[j].stargazers])
         + StarsOf(Tail(pages))

\* C1: a star count that returns, returns the sum of stargazers.totalCount
\* over every repository edge of every page of the listing served for the
\* affiliation list it was called with, each page counted once.
C1_StarsAreSummedOverAllPages ==
    StarsLoopDone => ret.value = StarsOf(remote.pages)

C1_Witness ==
    /\ StarsLoopDone
    /\ Len(remote.pages) = 2
    /\ Len(call.affil) = 3
    /\ ret.value = 9

CursorsDistinct ==
    \A j1, j2 \in 1..Len(reqs) :
        j1 # j2 => reqs[j1].variables.cursor # reqs[j2].variables.cursor

\* C2: both pagination loops issue exactly as many requests as the listing
\* has pages and then return, and no two requests of one call carry the
\* same cursor.
C2_ExactlyOneRequestPerPage ==
    (StarsCall \/ LocCall) =>
        /\ CursorsDistinct
        /\ Len(reqs) <= Len(remote.pages)
        /\ (StarsLoopDone \/ EdgesLoopDone) => Len(reqs) = Len(remote.pages)

C2_Witness ==
    /\ EdgesLoopDone
    /\ cpc = "get_lines_of_code"
    /\ Len(remote.pages) = 2
    /\ Len(reqs) = 2

\* C3: the first request of a pagination loop carries the null cursor, each
\* later one the endCursor of the response before it; the loop goes on
\* after a response with hasNextPage = true and stops, without a further
\* request, at the first response with hasNextPage = false.
C3_CursorDiscipline ==
    (StarsCall \/ LocCall) =>
        /\ reqs # <<>> => reqs[1].variables.cursor = None
        /\ \A j \in 2..Len(reqs) :
              /\ reqs[j - 1].status = 200
              /\ reqs[j - 1].pageInfo.hasNextPage
              /\ reqs[j].variables.cursor = reqs[j - 1].pageInfo.endCursor
        /\ (StarsLoopDone \/ EdgesLoopDone) =>
              /\ reqs # <<>>
              /\ reqs[Len(reqs)].status = 200
              /\ ~reqs[Len(reqs)].pageInfo.hasNextPage
        /\ ((StarsLoopRunning \/ EdgesLoopRunning) /\ reqs # <<>>) =>
              /\ reqs[Len(reqs)].status = 200
              /\ reqs[Len(reqs)].pageInfo.hasNextPage

C3_Witness ==
    /\ StarsLoopRunning
    /\ Len(reqs) = 1
    /\ fr.cursor = Cursor(1)

\* the repositories get_lines_of_code has to enumerate: the non-fork,
\* non-archived repositories of the remote listing, in listing order
RECURSIVE Enumerated(_)
Enumerated(edges) ==
    IF edges = <<>> THEN <<>>
    ELSE IF Head(edges).isFork \/ Head(edges).isArchived
    THEN Enumerated(Tail(edges))
    ELSE <<Head(edges).nameWithOwner>> \o Enumerated(Tail(edges))

\* C4: when the detail fetch raises for a set F of the enumerated
\* repositories, get_lines_of_code still returns, every enumerated
\* repository has been tried, and the added, deleted and commit totals are
\* the sums of what the fetches of the repositories not in F returned.
C4_FailedFetchesAreSkipped ==
    LocCall =>
        /\ raisedFor # {} => ret.kind # "raised"
        /\ (cpc = "idle" /\ ret.kind = "value") =>
              /\ attempted = Enumerated(Flatten(remote.pages))
              /\ raisedFor \subseteq Range(attempted)
              /\ ret.value[1] = sumReturned.additions
              /\ ret.value[2] = sumReturned.deletions
              /\ ret.value[4] = sumReturned.commits

C4_Witness ==
    /\ LocCall
    /\ cpc = "idle"
    /\ ret.kind = "value"
    /\ Len(attempted) = 2
    /\ raisedFor = {attempted[1]}
    /\ ret.value[1] = 5
    /\ ret.value[4] = 1

\* C5: a non-200 response to a graph request makes the operation fail with
\* an error carrying the operation name, the status and the response text;
\* it is the last request of the call.
C5_GraphErrorsAreFatal ==
    \A j \in 1..Len(reqs) :
        reqs[j].status # 200 =>
            /\ j = Len(reqs)
            /\ cpc = "idle"
            /\ ret.kind = "raised"
            /\ ret.error.operation = reqs[j].operation
            /\ ret.error.status = reqs[j].status
            /\ ret.error.text = reqs[j].text

C5_Witness ==
    /\ LocCall
    /\ Len(reqs) = 2
    /\ reqs[2].status = 502
    /\ ret.kind = "raised"
    /\ ret.error.text = "Bad gateway"

(***************************************************************************)
(* Properties of the run, checked under SpecRun.                           *)
(***************************************************************************)
\* C6: if a step of _collect_data raises, run exits with a non-zero status
\* and no template is opened for writing; a template is opened for writing
\* only after every step of _collect_data has completed.
C6_NoTemplateWriteAfterFailedCollection ==
    /\ raisedAt # None =>
           /\ exit_status # Running /\ exit_status # Exited(0)
           /\ opened = <<>>
    /\ opened # <<>> =>
           /\ completed = CollectionSteps
           /\ raisedAt = None

\* The listing request of the lines-of-code step failed after seven steps
\* had completed: the run has exited with status 1, nothing was written.
C6_Witness ==
    /\ raisedAt = <<"loc_data">>
    /\ Len(completed) = 7
    /\ ret.kind = "raised"
    /\ exit_status = Exited(1)
    /\ opened = <<>>
    /\ \A f \in Range(SvgFiles) : files[f] = run_template

(***************************************************************************)
(* Properties of the configuration merge, checked under SpecMerge.         *)
(***************************************************************************)
SocialBefore ==
    IF "social" \in DOMAIN lastMerge.before THEN lastMerge.before.social
                                             ELSE EmptyDict

AlreadySet(field) ==
    field \in DOMAIN SocialBefore /\ Truthy(SocialBefore[field])

Supplies(field) ==
    /\ TruthyDict(lastMerge.github_data)
    /\ Truthy(Get(lastMerge.github_data, field, None))

\* The value a field is filled with: the fetched website and email as they
\* are, the fetched twitter handle as a twitter.com link.
Supplied(field) ==
    IF field = "twitter" THEN twitter_prefix \o lastMerge.github_data.twitter
                         ELSE lastMerge.github_data[field]

RecognizedTokens ==
    { <<"{", "C", "O", "M", "M", "I", "T", "S", "}">>,
      <<"{", "C", "O", "N", "T", "R", "I", "B", "}">>,
      <<"{", "S", "T", "A", "R", "S", "}">>,
      <<"{", "L", "O", "C", "_", "T", "O", "T", "A", "L", "}">>,
      <<"{", "L", "O", "C", "_", "A", "D", "D", "}">>,
      <<"{", "L", "O", "C", "_", "D", "E", "L", "}">>,
      <<"{", "A", "G", "E", "}">>,
      <<"{", "E", "N", "V", "I", "R", "O", "N", "M", "E", "N", "T", "}">>,
      <<"{", "L", "A", "N", "G", "U", "A", "G", "E", "S", "}">>,
      <<"{", "S", "E", "R", "V", "E", "R", "_", "R", "E", "G", "I", "O", "N", "}">>,
      <<"{", "H", "O", "S", "T", "_", "P", "L", "A", "T", "F", "O", "R", "M", "}">>,
      <<"{", "L", "I", "N", "K", "E", "D", "I", "N", "}">> }

\* The token that is given a value only when a timestamp is passed.
TimestampToken ==
    <<"{", "B", "U", "I", "L", "D", "_", "T", "I", "M", "E", "S", "T", "A", "M", "P", "}">>

\* The bare literals, each with the configured value that replaces it.
BareLiterals ==
    { [literal |-> <<"t", "w", "i", "t", "t", "e", "r", ".", "c", "o", "m", "/", "l", "e", "l", "b", "o", "r", "n">>,
       value |-> _get_config_data.social_twitter],
      [literal |-> <<"l", "e", "w", "i", "s", "e", "l", "b", "o", "r", "n", ".", "c", "o", "m">>,
       value |-> _get_config_data.social_website],
      [literal |-> <<"l", "e", "w", "i", "s", "@", "l", "e", "w", "i", "s", "e", "l", "b", "o", "r", "n", ".", "c", "o", "m">>,
       value |-> _get_config_data.social_email] }

FirstOutput == passes[1]

\* The replace calls of the twelve braced tokens, and the calls after them.
TokenSteps == SubSeq(CurrentSteps, 1, 12)
LaterSteps == SubSeq(CurrentSteps, 13, Len(CurrentSteps))

\* The replace call of the timestamp token, if it is made.
TimestampSteps == SubSeq(CurrentSteps, 16, Len(CurrentSteps))

\* text with every occurrence of the pattern of one of the steps replaced
\* by that step's value, in one scan from the left.
RECURSIVE Simultaneous(_, _)
Simultaneous(text, steps) ==
    IF text = <<>> THEN <<>>
    ELSE LET hits == { k \in 1..Len(steps) : OccursAt(text, steps[k].old, 1) }
         IN  IF hits = {}
             THEN <<Head(text)>> \o Simultaneous(Tail(text), steps)
             ELSE LET st == steps[CHOOSE k \in hits : TRUE]
                  IN  st.new \o Simultaneous(SubSeq(text, Len(st.old) + 1, Len(text)),
                                             steps)

\* A value that cannot make a token: it is not empty, has no brace and
\* occurs inside no token.
Inert(value) ==
    /\ value # <<>>
    /\ \A i \in 1..Len(value) : value[i] \notin {"{", "}"}
    /\ \A t \in RecognizedTokens \cup {TimestampToken} : ~Occurs(t, value)

InertValues == \A k \in 1..Len(TokenSteps) : Inert(TokenSteps[k].new)

\* C8 (as amended): for token values that are not empty, have no brace and
\* occur inside no token, the output is the document with every occurrence
\* of each of the twelve braced tokens replaced by its value, to which the
\* three literal steps and, when a timestamp is given, the
\* {BUILD_TIMESTAMP} step are then applied; a step whose pattern does not
\* occur in the document leaves the document unchanged.
C8_EveryOccurrenceOfEachTokenIsReplaced ==
    (passes # <<>> /\ InertValues) =>
        /\ FirstOutput = ApplySteps(Simultaneous(document, TokenSteps), LaterSteps)
        /\ \A k \in 1..Len(CurrentSteps) :
               ~Occurs(document, CurrentSteps[k].old) =>
                   Replace(document, CurrentSteps[k].old, CurrentSteps[k].new)
                       = document

\* Every token occurs in the document, {STARS} twice, next to an
\* unrecognized placeholder, and none is left in the output.
C8_Witness ==
    /\ passes # <<>>
    /\ InertValues
    /\ document = AllTokens \o TOKEN.STARS
    /\ Truthy(args.build_timestamp)
    /\ \A t \in RecognizedTokens \cup {TimestampToken} : ~Occurs(FirstOutput, t)

\* C8 as stated: every occurrence of each recognized braced token is
\* replaced by its value and every other part of the document is unchanged.
C8_OtherPartsUnchanged ==
    passes # <<>> =>
        FirstOutput = Simultaneous(document, TokenSteps \o TimestampSteps)

\* C9 as stated: two replace calls exchanged, the output is that of the
\* order the code uses.
C9_OrderIndependent ==
    reordered # NoReorder => reordered.content = Substituted(document)

\* Nothing is left to substitute in text: no token that is given a value
\* occurs in it, and a bare literal occurs only if its configured value is
\* the literal itself.
NothingToSubstitute(text) ==
    /\ \A t \in RecognizedTokens : ~Occurs(text, t)
    /\ Truthy(args.build_timestamp) => ~Occurs(text, TimestampToken)
    /\ \A l \in BareLiterals : Occurs(text, l.literal) => l.value = l.literal

\* C10 (as amended): a second pass with the same inputs over the output of
\* a first pass leaves it unchanged, provided nothing is left to substitute
\* in that output.
C10_SecondPassChangesNothing ==
    (Len(passes) = 2 /\ NothingToSubstitute(FirstOutput)) =>
        passes[2] = FirstOutput

\* The first pass replaced every token and a bare literal, the second pass
\* found nothing to do.
C10_Witness ==
    /\ Len(passes) = 2
    /\ document = AllTokens \o LITERAL_EMAIL
    /\ Truthy(args.build_timestamp)
    /\ _get_config_data.social_website = example_org
    /\ NothingToSubstitute(FirstOutput)
    /\ FirstOutput # document
    /\ passes[2] = FirstOutput

\* C10 as stated: apply(apply(d)) = apply(d) for every document and inputs.
C10_Idempotent ==
    Len(passes) = 2 => passes[2] = passes[1]

\* No value of a braced token contains one of the bare literals.
LiteralFreeValues ==
    \A k \in 1..Len(TokenSteps) :
        \A l \in BareLiterals : ~Occurs(TokenSteps[k].new, l.literal)

\* C11 as stated: each bare literal is replaced, wherever it appears
\* verbatim in the input document, by its configured social value; every
\* occurrence of the default email literal in the input becomes the
\* configured social.email, whatever website, twitter and email are
\* configured.
C11_LiteralsReplacedWhereTheyAppear ==
    (passes # <<>> /\ InertValues /\ LiteralFreeValues) =>
        FirstOutput = Simultaneous(document, CurrentSteps)

(***************************************************************************)
(* Properties of the template update and of the order of the run, checked  *)
(* under SpecRun.                                                          *)
(***************************************************************************)
\* Call j of _update_single_svg met an I/O error.
Failed(j) == attempts[j].outcome # "ok"

\* A message naming the document f has been printed.
Reported(f) ==
    \E m \in Range(console) : "file" \in DOMAIN m /\ m.file = f

\* C12: an I/O error on one template (not there at update time, read or
\* write failure) is reported for that template and is not raised out of
\* update_svg_files: the run neither records an exception nor exits with an
\* error, the calls are made for the dark and then the light template, and
\* when update_svg_files has returned both templates have been attempted,
\* whichever of them failed.
C12_TemplateErrorsAreRecoveredPerDocument ==
    /\ Len(attempts) <= Len(SvgFiles)
    /\ \A j \in 1..Len(attempts) :
           /\ attempts[j].file = SvgFiles[j]
           /\ Failed(j) =>
                  /\ Reported(SvgFiles[j])
                  /\ raisedAt = None
                  /\ exit_status \in {Running, Exited(0)}
                  /\ pc # <<"update", j>>
    /\ pc \in {<<"summary">>, <<"done">>} => Len(attempts) = Len(SvgFiles)

\* The dark template was gone at update time: a warning was printed, the
\* light template was still updated and the run ended normally.
C12_Witness ==
    /\ Len(attempts) = 2
    /\ attempts[1].outcome = "FileNotFoundError"
    /\ attempts[2].outcome = "ok"
    /\ files[SvgFiles[1]] = Missing
    /\ files[SvgFiles[2]] # run_template
    /\ opened = <<SvgFiles[2]>>
    /\ Reported(SvgFiles[1]) /\ ~Reported(SvgFiles[2])
    /\ exit_status = Exited(0)

\* A template is missing and no update has been tried yet: it was missing
\* when the process started.
MissingAtStartup ==
    attempts = <<>> /\ \E f \in Range(SvgFiles) : files[f] = Missing

\* No graph request and no REST request has been issued by the process.
NoRequestIssued ==
    /\ call.op = "none"
    /\ \A o \in Operations : query_count[o] = 0
    /\ reqs = <<>>
    /\ rest_calls = 0

\* C13: when a template is missing at startup or ACCESS_TOKEN is not set,
\* the run gets no further than the constructor or the creation of the
\* client, it ends with a non-zero exit status, and no graph or REST request
\* has been issued.
C13_ConfigurationErrorsPrecedeNetworkActivity ==
    (MissingAtStartup \/ ~env.ACCESS_TOKEN) =>
        /\ NoRequestIssued
        /\ pc \in {<<"init">>, <<"collect", 1>>, <<"exited">>}
        /\ pc = <<"exited">> => exit_status = Exited(1)
        /\ pc # <<"exited">> => exit_status = Running

\* Both templates are there but ACCESS_TOKEN is not set: creating the client
\* raised, the run exited with status 1 and nothing was requested.
C13_Witness ==
    /\ ~env.ACCESS_TOKEN
    /\ \A f \in Range(SvgFiles) : files[f] = run_template
    /\ raisedAt = <<"user_info">>
    /\ _github_api_instance = None
    /\ exit_status = Exited(1)
    /\ NoRequestIssued

(***************************************************************************)
(* Properties of the query statistics, checked under SpecStats.            *)
(***************************************************************************)
\* The caller holds a dict returned by get_query_stats.
HoldsStats == query_stats # NoStats

\* The step is a write of the caller to the dict it holds.
CallerWrote ==
    /\ HoldsStats
    /\ query_stats' # NoStats
    /\ query_stats'.writes > query_stats.writes

\* The step is a call of get_query_stats.
StatsTaken == query_stats' # query_stats /\ query_stats'.writes = 0

\* C14: get_query_stats returns the counters as they are at the call; a
\* write of the caller to the returned dict leaves the counters of the
\* client unchanged, and a step of the client leaves a dict returned
\* earlier unchanged.
C14_QueryStatsIsASnapshot ==
    [][ /\ StatsTaken => Deref(query_stats.ref)' = query_count'
        /\ CallerWrote => query_count' = query_count
        /\ (HoldsStats /\ query_stats' = query_stats) =>
               Deref(query_stats.ref)' = Deref(query_stats.ref) ]_vars

\* The statistics were taken after a user query, the caller overwrote an
\* item of the dict, and a follower query was counted afterwards: the dict
\* and the counters each kept what the other did not change.
C14_Witness ==
    /\ HoldsStats
    /\ query_stats.writes = 1
    /\ DOMAIN Deref(query_stats.ref) = Operations
    /\ Deref(query_stats.ref).user_getter = 99
    /\ Deref(query_stats.ref).follower_getter = 0
    /\ query_count.user_getter = 1
    /\ query_count.follower_getter = 1

\* C15: over any sequence of client calls, successful or failing, taken
\* statistics and caller writes, no step lowers or resets a counter of
\* query_count or changes its key set, which stays the six operation names.
C15_CountersNeverDecrease ==
    /\ [](DOMAIN query_count = Operations)
    /\ [][ /\ DOMAIN query_count' = DOMAIN query_count
           /\ \A o \in DOMAIN query_count : query_count'[o] >= query_count[o] ]_vars

\* A user query was counted, then a star count failed at its second page:
\* both requests of the failed call stay counted next to the first.
C15_Witness ==
    /\ query_count.user_getter = 1
    /\ query_count.graph_repos_stars = 2
    /\ call.op = "stars"
    /\ cpc = "idle"
    /\ ret.kind = "raised"

(***************************************************************************)
(* Properties of the lines-of-code aggregation, checked under Spec.        *)
(***************************************************************************)
\* get_lines_of_code has returned its result list.
LocReturned == LocCall /\ cpc = "idle" /\ ret.kind = "value"

\* C16: whatever the detail fetches returned and whichever of them failed,
\* the result of get_lines_of_code has total = added - deleted, which is
\* the difference of the additions and deletions the fetches returned and
\* is negative when more was deleted than added.
C16_TotalIsAddedMinusDeleted ==
    LocReturned =>
        /\ ret.value[3] = ret.value[1] - ret.value[2]
        /\ ret.value[3] = sumReturned.additions - sumReturned.deletions
        /\ ret.value[2] > ret.value[1] => ret.value[3] < 0

\* Of two repositories one fetch failed and the other returned commits with
\* deletions only: the total is negative.
C16_Witness ==
    /\ LocReturned
    /\ Len(attempted) = 2
    /\ Cardinality(raisedFor) = 1
    /\ ret.value[1] = 0
    /\ ret.value[2] = 8
    /\ ret.value[3] = -8

\* The repositories of the whole listing that are neither forks nor
\* archived.
Eligible ==
    { e.nameWithOwner : e \in { x \in Range(Flatten(remote.pages)) :
                                    ~x.isFork /\ ~x.isArchived } }

\* C17: get_lines_of_code starts a detail fetch only for repositories of
\* the listing that are neither forks nor archived, and none before the
\* listing has been read to its last page; when it returns, a detail fetch
\* has been started exactly once for each such repository of every page.
C17_DetailIsFetchedForExactlyTheEligibleRepositories ==
    LocCall =>
        /\ Range(attempted) \subseteq Eligible
        /\ Len(attempted) = Cardinality(Range(attempted))
        /\ cpc = "_get_all_repository_edges" => attempted = <<>> /\ rest_calls = 0
        /\ LocReturned => Range(attempted) = Eligible

\* A listing of two pages with a fork on the first and an archived
\* repository on the second: the other two repositories were fetched.
C17_Witness ==
    /\ LocReturned
    /\ Len(remote.pages) = 2
    /\ Len(remote.pages[1]) = 2 /\ Len(remote.pages[2]) = 2
    /\ remote.pages[1][1].isFork
    /\ remote.pages[2][2].isArchived
    /\ attempted = << <<1, 2>>, <<2, 1>> >>

\* A warning naming the repository has been printed.
Warned(repo_name) ==
    \E j \in 1..Len(warnings) : warnings[j].repo_name = repo_name

\* C18 as stated: whenever a detail request made for a repository
\* (participation, commit list or commit detail) gets a response other than
\* a success, or raises, a warning naming that repository is printed.
C18_EveryDetailErrorIsLogged ==
    LocCall => \A e \in detail_errors : Warned(e.repo_name)

(***************************************************************************)
(* Properties of the batches of get_lines_of_code, checked under           *)
(* SpecBatch.                                                              *)
(***************************************************************************)
Only(S) == CHOOSE x \in S : TRUE

Succeeds(resp) == ~resp.raises /\ resp.status = 200

\* What one fetch of the commit statistics of a repository gives under the
\* script of the server: it fails (the participation request is refused or
\* a request raises), or it returns sums over the commits whose detail is
\* served with stats.
ScriptedFetch(repo_name) ==
    LET n == Only(CommitCounts(repo_name))
        counted(c) ==
            /\ Succeeds(Only(DetailAnswers(repo_name, c)))
            /\ "stats" \in DOMAIN Only(DetailDocuments(repo_name, c))
        stat(c, key) ==
            IF counted(c)
            THEN Get(Only(DetailDocuments(repo_name, c)).stats, key, 0)
            ELSE 0
        raises(c) == Only(DetailAnswers(repo_name, c)).raises
    IN  IF \/ ~Succeeds(Only(ParticipationAnswers(repo_name)))
           \/ Only(CommitsAnswers(repo_name)).raises
           \/ Succeeds(Only(CommitsAnswers(repo_name))) /\ \E c \in 1..n : raises(c)
        THEN [failed |-> TRUE, additions |-> 0, deletions |-> 0, commits |-> 0]
        ELSE IF ~Succeeds(Only(CommitsAnswers(repo_name)))
        THEN [failed |-> FALSE, additions |-> 0, deletions |-> 0, commits |-> 0]
        ELSE [failed |-> FALSE,
              additions |-> SumSeq([c \in 1..n |-> stat(c, "additions")]),
              deletions |-> SumSeq([c \in 1..n |-> stat(c, "deletions")]),
              commits |-> SumSeq([c \in 1..n |-> IF counted(c) THEN 1 ELSE 0])]

\* The totals of a plain loop over the edges, one fetch per edge.
PlainLoop(edges) ==
    LET fetched == [j \in 1..Len(edges) |-> ScriptedFetch(edges[j].nameWithOwner)]
    IN  [additions |-> SumSeq([j \in 1..Len(edges) |-> fetched[j].additions]),
         deletions |-> SumSeq([j \in 1..Len(edges) |-> fetched[j].deletions]),
         commits |-> SumSeq([j \in 1..Len(edges) |-> fetched[j].commits]),
         failed |-> { edges[j].nameWithOwner :
                        j \in { i \in 1..Len(edges) : fetched[i].failed } }]

\* C19: for a list of edges of any length from none to more than two
\* batches, the fetches are started for the edges in list order, each edge
\* once, and the result of get_lines_of_code is that of a plain loop over
\* the edges without batches.
C19_BatchingDoesNotChangeTheResult ==
    (LocCall /\ IsScripted) =>
        LET edges == Flatten(remote.pages)
            plain == PlainLoop(edges)
        IN  /\ Len(attempted) <= Len(edges)
            /\ \A j \in 1..Len(attempted) : attempted[j] = edges[j].nameWithOwner
            /\ LocReturned =>
                   /\ Len(attempted) = Len(edges)
                   /\ raisedFor = plain.failed
                   /\ ret.value = << plain.additions, plain.deletions,
                                     plain.additions - plain.deletions,
                                     plain.commits, FALSE >>

\* Twenty-one edges, two full batches and one of a single edge: every edge
\* was fetched once, in order, some fetches failed.
C19_Witness ==
    /\ LocReturned
    /\ IsScripted
    /\ Len(Flatten(remote.pages)) = 21
    /\ Len(attempted) = 21
    /\ attempted[21] = <<1, 21>>
    /\ raisedFor # {}
    /\ ret.value[4] > 0

(***************************************************************************)
(* The order of the run, checked under SpecRun.                            *)
(***************************************************************************)
\* The order of the steps: user info, merge, age, star count, repository
\* count, contributed-repository count, follower count, lines of code,
\* commit count.
StatedOrder ==
    << "user_info", "merge", "age", "stars", "repos", "contrib_repos",
       "followers", "loc_data", "commits" >>

\* The client call a step waits for: method and affiliation list.
StatedCall ==
    [ user_info |-> [op |-> "get_user_info", affil |-> <<>>],
      stars |-> [op |-> "stars", affil |-> <<"OWNER">>],
      repos |-> [op |-> "repos", affil |-> <<"OWNER">>],
      contrib_repos |->
          [op |-> "repos",
           affil |-> <<"OWNER", "COLLABORATOR", "ORGANIZATION_MEMBER">>],
      followers |-> [op |-> "get_follower_count", affil |-> <<>>],
      loc_data |-> [op |-> "get_lines_of_code", affil |-> <<"OWNER">>],
      commits |-> [op |-> "get_commit_stats", affil |-> <<>>] ]

\* C20: the steps of the run complete in the stated order, one at a time:
\* a client call is in progress only while the orchestrator waits for it in
\* the step it belongs to, after all steps before it have completed; the
\* merge follows the user information; _update_single_svg is called only
\* after all nine steps and the merge, once for the dark and then once for
\* the light template, and both calls have been made when the run ends
\* normally.
C20_StepsRunInTheStatedOrder ==
    /\ Len(completed) <= Len(StatedOrder)
    /\ completed = SubSeq(StatedOrder, 1, Len(completed))
    /\ pc[1] \in {"collect", "await"} => Len(completed) = pc[2] - 1
    /\ cpc # "idle" => pc[1] = "await"
    /\ pc[1] = "await" => call = StatedCall[StatedOrder[pc[2]]]
    /\ lastMerge # NoMerge =>
           /\ Len(completed) >= 1
           /\ lastMerge.github_data = run_data.github_info
    /\ Len(completed) >= 2 => lastMerge # NoMerge
    /\ Len(attempts) <= Len(SvgFiles)
    /\ \A j \in 1..Len(attempts) : attempts[j].file = SvgFiles[j]
    /\ attempts # <<>> => completed = StatedOrder /\ cpc = "idle"
    /\ pc[1] \in {"summary", "done"} => Len(attempts) = Len(SvgFiles)

\* A run that ended normally: the nine steps completed in order and each
\* template was substituted once.
C20_Witness ==
    /\ pc = <<"done">>
    /\ exit_status = Exited(0)
    /\ completed = StatedOrder
    /\ lastMerge # NoMerge
    /\ attempts = << [file |-> "profile-dark.svg", outcome |-> "ok"],
                     [file |-> "profile-light.svg", outcome |-> "ok"] >>
    /\ opened = SvgFiles
    /\ \A f \in Range(SvgFiles) : files[f] = Substituted(run_template)

(***************************************************************************)
(* Properties of what the template update leaves on disk and of what the   *)
(* run reports about it, checked under SpecRun.                            *)
(***************************************************************************)
\* The content the documents had before update_svg_files was called.
PreUpdateContent == run_template

\* The document f holds its complete content of before the update or its
\* complete substituted content, or was removed by somebody else.
Whole(f) ==
    \/ files[f] = Missing
    \/ files[f] = PreUpdateContent
    \/ args # NoArguments /\ files[f] = Substituted(PreUpdateContent)

\* C21 as stated: at every point during and after update_svg_files, and
\* also when the write of a document fails, each document on disk holds
\* either its complete content of before the update or its complete
\* substituted content; no document is left partially written.
C21_TemplatesAreNeverPartiallyWritten ==
    \A f \in Range(SvgFiles) : Whole(f)

(***************************************************************************)
(* Properties of what merge_github_data stores and leaves alone, checked   *)
(* under SpecMerge.                                                        *)
(***************************************************************************)
\* The configurations a ConfigManager holds right after its construction.
FreshConfigs ==
    {DEFAULT_CONFIG_0} \cup { file.object : file \in { f \in ConfigFiles : f.file = "json" } }

\* The last merge was called on a configuration as the constructor leaves
\* it, with a profile record.
MergedFresh ==
    /\ lastMerge # NoMerge
    /\ lastMerge.before \in FreshConfigs
    /\ TruthyDict(lastMerge.github_data)

\* get('section.key') finds the value stored under the key.
Holds(section, key, value) ==
    /\ section \in DOMAIN self_config
    /\ key \in DOMAIN self_config[section]
    /\ self_config[section][key] = value

\* C22 as stated: after merge_github_data(d) on a freshly constructed
\* ConfigManager, get('personal.location') equals d['location'] and
\* get('personal.github_joined') equals d['created_at'].
C22_LocationAndJoinDateAreMerged ==
    MergedFresh =>
        /\ get("personal", "location", None) = lastMerge.github_data.location
        /\ Holds("personal", "github_joined", lastMerge.github_data.created_at)

\* The field was missing or empty before the merge and GitHub supplies a
\* non-empty value for it.
Filled(field) == lastMerge # NoMerge /\ ~AlreadySet(field) /\ Supplies(field)

\* "twitter.com/" + h
TwitterLink(h) ==
    <<"t", "w", "i", "t", "t", "e", "r", ".", "c", "o", "m", "/">> \o h

\* C23: when a social field is missing or empty before the merge and GitHub
\* supplies a non-empty value, the website and the email are stored as
\* GitHub reports them, character for character, and the twitter handle h
\* is stored as "twitter.com/" followed by h.
C23_FilledValuesAreVerbatimAndTwitterIsALink ==
    /\ Filled("website") =>
           Holds("social", "website", lastMerge.github_data.website)
    /\ Filled("email") =>
           Holds("social", "email", lastMerge.github_data.email)
    /\ Filled("twitter") =>
           Holds("social", "twitter", TwitterLink(lastMerge.github_data.twitter))

\* The configuration file had no twitter entry and an empty website; GitHub
\* reported the handle g and a website: the link twitter.com/g and the
\* reported website were stored.
C23_Witness ==
    /\ Filled("twitter") /\ Filled("website")
    /\ "social" \in DOMAIN lastMerge.before
    /\ DOMAIN SocialBefore = {"website"}
    /\ SocialBefore.website = <<>>
    /\ lastMerge.github_data.twitter = <<"g">>
    /\ Len(self_config.social.twitter) = 13
    /\ self_config.social.twitter[12] = "/"
    /\ self_config.social.twitter[13] = "g"
    /\ self_config.social.website = <<"g">>

(***************************************************************************)
(* Properties of single client calls and of the counters, checked under    *)
(* Spec.                                                                   *)
(***************************************************************************)
\* The optional fields of the profile record and the fields of data['user']
\* they are read from.
OptionalFields ==
    [ location |-> "location", website |-> "websiteUrl", email |-> "email",
      twitter |-> "twitterUsername", bio |-> "bio", company |-> "company",
      is_hireable |-> "isHireable" ]

\* get_user_info has returned the profile record.
UserInfoReturned ==
    /\ call.op = "get_user_info"
    /\ cpc = "idle"
    /\ ret.kind = "value"
    /\ "user" \in DOMAIN remote

\* The remote reported the field as absent or null.
NotReported(field) ==
    field \notin DOMAIN remote.user \/ remote.user[field] = None

\* C24 as stated: in the profile record returned by get_user_info, every
\* optional field (location, website, email, twitter, bio, company,
\* hireable flag) that the remote reports as absent or null is None, never
\* an empty string or another value that could be read as real data.
C24_UnreportedFieldsAreNone ==
    UserInfoReturned =>
        \A k \in DOMAIN OptionalFields :
            NotReported(OptionalFields[k]) => ret.value[2][k] = None

\* get_repository_stats('repos', A) is the call in progress or the last one.
ReposCall == call.op = "repos"

\* The response to the first listing query of the call.
FirstResponse == ServerPage(call.affil, None)

\* C25: get_repository_stats('repos', A) issues exactly one remote request,
\* however many repositories and pages there are and whatever hasNextPage
\* says in the response, and returns the totalCount of that response; a
\* failed request raises.
C25_RepositoryCountTakesOneRequest ==
    ReposCall =>
        /\ Len(reqs) = (IF cpc = "idle" THEN 1 ELSE 0)
        /\ rest_calls = 0
        /\ cpc = "idle" =>
               /\ reqs[1].operation = "graph_repos_stars"
               /\ reqs[1].variables.cursor = None
               /\ reqs[1].status = 200 <=> ret.kind = "value"
               /\ ret.kind = "value" => ret.value = FirstResponse.totalCount

\* The listing has two pages of two repositories each: the one response
\* said hasNextPage, and the call returned 4 after that one request.
C25_Witness ==
    /\ ReposCall
    /\ cpc = "idle"
    /\ Len(remote.pages) = 2
    /\ Len(reqs) = 1
    /\ reqs[1].status = 200
    /\ reqs[1].pageInfo.hasNextPage
    /\ ret.kind = "value"
    /\ ret.value = 4
    /\ query_count.graph_repos_stars = 1

(***************************************************************************)
(* Properties of the counters over sequences of calls, checked under       *)
(* SpecStats.                                                              *)
(***************************************************************************)
\* The step attempts a request to the graph endpoint: the log of the call
\* in progress grows by one.
GraphRequestStep == Len(reqs') = Len(reqs) + 1

\* The step attempts a REST request for a repository.
RestRequestStep == rest_calls' = rest_calls + 1

\* The counter of operation o, and no other, goes up by one.
CountsOne(o) == query_count' = [query_count EXCEPT ![o] = @ + 1]

\* C26: a new client has counted nothing; every step that attempts a graph
\* request, failed ones too, raises the one counter of its operation by one
\* and so get_total_queries by one; every other step, REST requests for a
\* repository among them, changes no counter.  So the sum of the counters
\* is the number of graph requests attempted so far.
C26_CountersCountGraphRequests ==
    /\ get_total_queries = 0 /\ reqs = <<>>
    /\ [](get_total_queries >= Len(reqs))
    /\ [][ /\ GraphRequestStep =>
                /\ reqs'[Len(reqs')].operation \in Operations
                /\ CountsOne(reqs'[Len(reqs')].operation)
                /\ get_total_queries' = get_total_queries + 1
           /\ ~GraphRequestStep => query_count' = query_count
           /\ RestRequestStep => query_count' = query_count ]_vars

\* A follower query was counted; then get_lines_of_code listed the
\* repositories with one graph request and made three REST requests for a
\* repository: two requests are counted, none under loc_query.
C26_Witness ==
    /\ call.op = "get_lines_of_code"
    /\ query_count.follower_getter = 1
    /\ query_count.recursive_loc = 1
    /\ query_count.loc_query = 0
    /\ rest_calls = 3
    /\ get_total_queries = 2

(***************************************************************************)
(* The contribution of one repository to the totals of get_lines_of_code,  *)
(* checked under SpecBatch, where the script of the server tells what each *)
(* request of a fetch was answered.                                        *)
(***************************************************************************)
\* The loop of get_lines_of_code is running: the frame holds the totals.
HasTotals(frame) == "total_added" \in DOMAIN frame

\* total_added, total_deleted and total_commits of get_lines_of_code.
Totals(frame) == <<frame.total_added, frame.total_deleted, frame.total_commits>>

\* The sums of what the detail fetches returned.
ReturnedSums ==
    <<sumReturned.additions, sumReturned.deletions, sumReturned.commits>>

\* C27: the contribution of a repository to the totals of get_lines_of_code
\* is all or nothing.  A step in which the detail fetch of a repository
\* raises, also after commits of it were counted, changes none of the three
\* totals; the totals change only in a step in which a fetch returns, all
\* three by what that fetch returned.  So at every point the three totals
\* are the sums over the same repositories, those whose fetch returned.
C27_RepositoryContributionIsAllOrNothing ==
    /\ [](LocCall /\ HasTotals(fr) => Totals(fr) = ReturnedSums)
    /\ [][ (LocCall /\ HasTotals(fr) /\ HasTotals(fr')) =>
              /\ raisedFor' # raisedFor =>
                     /\ Totals(fr') = Totals(fr)
                     /\ ReturnedSums' = ReturnedSums
              /\ Totals(fr') # Totals(fr) =>
                     /\ raisedFor' = raisedFor
                     /\ \A j \in 1..3 :
                            Totals(fr')[j] - Totals(fr)[j]
                                = ReturnedSums'[j] - ReturnedSums[j] ]_vars

\* The detail of commit c of the repository was served with stats, so the
\* fetch counted the commit.
ScriptCounts(repo_name, c) ==
    /\ Succeeds(Only(DetailAnswers(repo_name, c)))
    /\ "stats" \in DOMAIN Only(DetailDocuments(repo_name, c))
    /\ Only(DetailDocuments(repo_name, c)).stats.additions > 0

\* The fetch of the repository got as far as its second commit.
ReachesSecondCommit(repo_name) ==
    /\ Succeeds(Only(ParticipationAnswers(repo_name)))
    /\ Succeeds(Only(CommitsAnswers(repo_name)))
    /\ Only(CommitCounts(repo_name)) >= 2

\* The nineteenth repository had two commits; the first was counted with
\* five additions, the detail request of the second raised: the repository
\* is among the failed ones and the totals of the call are those of the
\* other repositories.
C27_Witness ==
    /\ LocReturned
    /\ IsScripted
    /\ remote.rest.seed = 0
    /\ Len(attempted) >= 19
    /\ ReachesSecondCommit(attempted[19])
    /\ ScriptCounts(attempted[19], 1)
    /\ Only(DetailAnswers(attempted[19], 2)).raises
    /\ attempted[19] \in raisedFor
    /\ LET others == SelectSeq(Flatten(remote.pages),
                               LAMBDA edge : edge.nameWithOwner # attempted[19])
       IN  /\ ret.value[1] = PlainLoop(others).additions
           /\ ret.value[2] = PlainLoop(others).deletions
           /\ ret.value[4] = PlainLoop(others).commits

(***************************************************************************)
(* The isolation of ConfigManager instances, checked under SpecRun.        *)
(***************************************************************************)
\* The configuration another ConfigManager, constructed from file before
\* the run, refers to now.
SeenByOther(file) ==
    IF _load_config(file).aliased THEN DEFAULT_CONFIG
                                  ELSE _load_config(file).dict

\* The configuration it was constructed with.
ConstructedWith(file) ==
    IF _load_config(file).aliased THEN DEFAULT_CONFIG_0
                                  ELSE _load_config(file).dict

\* C28 as stated: merge_github_data and the environment update on one
\* ConfigManager never change the class attribute DEFAULT_CONFIG nor the
\* configuration another ConfigManager sees, also when the instances fell
\* back to the default configuration.
C28_ConfigManagersAreIsolated ==
    /\ DEFAULT_CONFIG = DEFAULT_CONFIG_0
    /\ \A file \in RunConfigFiles : SeenByOther(file) = ConstructedWith(file)

(***************************************************************************)
(* What the run reports about the template update, checked under SpecRun.  *)
(***************************************************************************)
\* update_svg_files has printed its success message, or run has reported
\* successful completion, or the process has ended with status 0.
SuccessReported ==
    \/ \E m \in Range(console) :
           m.msg \in { "SVG files updated successfully",
                       "Profile generation completed successfully" }
    \/ exit_status = Exited(0)

\* Call j of _update_single_svg read, substituted and rewrote its document.
Rewritten(j) ==
    /\ j <= Len(attempts)
    /\ attempts[j].outcome = "ok"
    /\ files[SvgFiles[j]] = Substituted(PreUpdateContent)

\* C29 as stated: update_svg_files prints its success message, and run
\* reports successful completion and ends with status 0, only if both
\* template documents were actually read, substituted and rewritten.
C29_SuccessIsReportedOnlyWhenItHappened ==
    SuccessReported => \A j \in 1..Len(SvgFiles) : Rewritten(j)

(***************************************************************************)
(* The frame of merge_github_data, checked under SpecMerge.                *)
(***************************************************************************)
\* The social section after the last merge.
SocialAfter ==
    IF "social" \in DOMAIN self_config THEN self_config.social ELSE EmptyDict

\* Every section but social is as it was, and no section but social has
\* been added.
OtherSectionsKept ==
    /\ DOMAIN self_config \ {"social"} = DOMAIN lastMerge.before \ {"social"}
    /\ \A section \in DOMAIN self_config \ {"social"} :
           self_config[section] = lastMerge.before[section]

\* Every key of the social section but website, twitter and email is as it
\* was, none has been added and no key has been removed.
OtherSocialKeysKept ==
    /\ DOMAIN SocialBefore \subseteq DOMAIN SocialAfter
    /\ DOMAIN SocialAfter \ SocialFields = DOMAIN SocialBefore \ SocialFields
    /\ \A key \in DOMAIN SocialAfter \ SocialFields :
           SocialAfter[key] = SocialBefore[key]

\* None of social.website, social.twitter and social.email has changed.
SocialFieldsKept ==
    \A field \in SocialFields :
        Get(SocialAfter, field, None) = Get(SocialBefore, field, None)

====
